---- MODULE Spec2Model ----
(***************************************************************************)
(* A model of the scoring core of the stock dashboard backend:             *)
(*   - StockScoringService        (backend/src/services/stockScoringService.js)  *)
(*   - FundamentalAnalysisService (backend/src/services/fundamentalAnalysisService.js) *)
(*   - the sentiment aggregator   (unnamed/part_002, aggregateSentiments)  *)
(*                                                                         *)
(* Conventions.                                                            *)
(*   An optional JavaScript number is a sequence: <<>> when the field is   *)
(*   missing (undefined/null), <<n>> when it holds the number n.           *)
(*   A nullable object is a record with a field isNull.                    *)
(*   Prices, market capitalisations and percent changes are integers;      *)
(*   financial ratios are integers in hundredths (12.50 is 1250).          *)
(*   Arithmetic is exact: Math.round is modelled on the exact quotient, so *)
(*   the model does not reproduce IEEE-754 representation error.           *)
(*   An exception is an outcome record [raised |-> TRUE, ...].             *)
(***************************************************************************)
EXTENDS Integers, Sequences, FiniteSets

VARIABLES
    scoreIn,    \* <<quote, profile, historicalData>> handed to calculateScore
    scoreOut,   \* <<>> before the call, <<outcome>> after it
    fundIn,     \* <<basicFinancials, profile>> handed to analyzeFundamentals
    fundOut,    \* <<>> before the call, <<result>> after it
    sentIn,     \* the result list handed to aggregateSentiments
    sentOut,    \* <<>> before the call, <<summary>> after it
    callLog,    \* the calls made on the service singletons so far
    benchmarksTable, \* the field industryBenchmarks of the fundamental-analysis singleton
    thresholdsTable, \* the field scoreThresholds of the scoring singleton
    requests,   \* per request in progress: its inputs, its position, its results
    hpc,        \* the position of the GET /:symbol handler
    fetched,    \* the provider responses the handler holds
    response,   \* <<>> until the handler answers, then <<[status, body]>>
    mpc,        \* the position of analyzeMultipleSentiments
    apiKeySet,  \* whether OPENROUTER_API_KEY is configured
    headlines,  \* the headlines handed to analyzeMultipleSentiments
    batchStart, \* the loop variable i: the index of the first headline of the batch
    calls,      \* per headline, the state of the promise batch.map made for it
    settleOrder, \* the promises of the current batch, in the order they settled
    allResults, \* the array results: the results pushed so far
    webhookSecret, \* process.env.FINNHUB_WEBHOOK_SECRET: unset, or the secret
    webhookEvents, \* the array webhookEvents, newest first
    received,   \* the arrival stamp of the newest event (Date.now() at its receipt)
    exchange,   \* <<>> before a webhook request, then <<the last request and its res>>
    stockData,  \* the App state stockData: null, or the data of a symbol
    loadingState, \* the App state loadingState: isLoading and error
    fetches     \* per handleStockSelect call: its symbol and the state of its fetch

pureVars == <<scoreIn, scoreOut, fundIn, fundOut, sentIn, sentOut>>

logVars == <<callLog, benchmarksTable, thresholdsTable, requests>>

handlerVars == <<hpc, fetched, response>>

multiVars == <<mpc, apiKeySet, headlines, batchStart, calls, settleOrder, allResults>>

webhookVars == <<webhookSecret, webhookEvents, received, exchange>>

appVars == <<stockData, loadingState, fetches>>

vars == <<pureVars, logVars, handlerVars, multiVars, webhookVars, appVars>>

(***************************************************************************)
(* JavaScript values and arithmetic                                        *)
(***************************************************************************)
Null == <<>>

Some(n) == <<n>>

\* typeof x === 'number'
IsNumber(x) == x # Null

\* the truthiness of an optional number: undefined, null and 0 are falsy
Truthy(x) == x # Null /\ x[1] # 0

Val(x) == x[1]

\* floor(n / d) for d # 0
FloorDiv(n, d) == IF d > 0 THEN n \div d ELSE (0 - n) \div (0 - d)

\* Math.round(n / d): the nearest integer, halves rounded towards +infinity
MathRound(n, d) == FloorDiv(2 * n + d, 2 * d)

Max(a, b) == IF a > b THEN a ELSE b

Min(a, b) == IF a < b THEN a ELSE b

RECURSIVE SumSeq(_)
SumSeq(s) == IF s = <<>> THEN 0 ELSE Head(s) + SumSeq(Tail(s))

\* Array.prototype.slice(start, end) with negative indices counted from the end;
\* the result holds the 0-based positions from..(to - 1)
Slice(s, start, end) ==
    LET n    == Len(s)
        from == IF start < 0 THEN Max(n + start, 0) ELSE Min(start, n)
        to   == IF end < 0 THEN Max(n + end, 0) ELSE Min(end, n)
    IN  IF to <= from THEN <<>> ELSE SubSeq(s, from + 1, to)

SliceFrom(s, start) == Slice(s, start, Len(s))

(***************************************************************************)
(* StockScoringService                                                     *)
(***************************************************************************)
scoreThresholds ==
    [strong   |-> [min |-> 70, label |-> "Strong",   color |-> "#10B981"],
     moderate |-> [min |-> 40, label |-> "Moderate", color |-> "#F59E0B"],
     weak     |-> [min |-> 0,  label |-> "Weak",     color |-> "#EF4444"]]

\* the weights of calculateScore, in hundredths
weights == [price |-> 30, momentum |-> 25, volatility |-> 20, market |-> 15, trend |-> 10]

\* a variant whose comparisons are >= instead of >
calculatePriceScoreInclusive(quote) ==
    IF quote.isNull \/ ~IsNumber(quote.dp) THEN 50
    ELSE LET changePercent == Val(quote.dp)
         IN  IF changePercent >= 5 THEN 90
             ELSE IF changePercent >= 2 THEN 80
             ELSE IF changePercent >= 0 THEN 65
             ELSE IF changePercent >= -2 THEN 35
             ELSE IF changePercent >= -5 THEN 20
             ELSE 10

calculatePriceScore(quote) ==
    IF quote.isNull \/ ~IsNumber(quote.dp) THEN 50
    ELSE LET changePercent == Val(quote.dp)
         IN  IF changePercent > 5 THEN 90
             ELSE IF changePercent > 2 THEN 80
             ELSE IF changePercent > 0 THEN 65
             ELSE IF changePercent > -2 THEN 35
             ELSE IF changePercent > -5 THEN 20
             ELSE 10

\* a variant without the zero-range guard, the quotient by a zero range taken
\* as the end of the scale the current price lies at
calculateMomentumScoreNoRangeGuard(quote) ==
    IF quote.isNull \/ ~Truthy(quote.h) \/ ~Truthy(quote.l) \/ ~Truthy(quote.c) THEN 50
    ELSE LET high    == Val(quote.h)
             low     == Val(quote.l)
             current == Val(quote.c)
             range   == high - low
         IN  IF range = 0 THEN (IF current >= low THEN 100 ELSE 0)
             ELSE MathRound((current - low) * 100, range)

calculateMomentumScore(quote) ==
    IF quote.isNull \/ ~Truthy(quote.h) \/ ~Truthy(quote.l) \/ ~Truthy(quote.c) THEN 50
    ELSE LET high    == Val(quote.h)
             low     == Val(quote.l)
             current == Val(quote.c)
             range   == high - low
         IN  IF range = 0 THEN 50
             ELSE MathRound((current - low) * 100, range)

\* ((high - low) / previousClose) * 100 < t, for previousClose # 0
VolatilityBelow(high, low, previousClose, t) ==
    IF previousClose > 0 THEN (high - low) * 100 < t * previousClose
    ELSE (high - low) * 100 > t * previousClose

calculateVolatilityScore(quote) ==
    IF quote.isNull \/ ~Truthy(quote.h) \/ ~Truthy(quote.l) \/ ~Truthy(quote.pc) THEN 50
    ELSE LET high == Val(quote.h)
             low  == Val(quote.l)
             previousClose == Val(quote.pc)
         IN  IF VolatilityBelow(high, low, previousClose, 1) THEN 80
             ELSE IF VolatilityBelow(high, low, previousClose, 2) THEN 70
             ELSE IF VolatilityBelow(high, low, previousClose, 3) THEN 60
             ELSE IF VolatilityBelow(high, low, previousClose, 5) THEN 40
             ELSE IF VolatilityBelow(high, low, previousClose, 8) THEN 25
             ELSE 10

calculateMarketScore(profile) ==
    IF profile.isNull \/ ~Truthy(profile.marketCapitalization) THEN 50
    ELSE LET marketCap == Val(profile.marketCapitalization)
         IN  IF marketCap > 10000 THEN 80
             ELSE IF marketCap > 2000 THEN 65
             ELSE IF marketCap > 300 THEN 45
             ELSE 30

\* historicalData.c is absent, an array of closes, or (malformed provider
\* data) a string, which has a length and a slice but no reduce
CTruthy(c) ==
    CASE c.kind = "absent" -> FALSE
      [] c.kind = "array"  -> TRUE
      [] c.kind = "string" -> c.len > 0

CLength(c) == IF c.kind = "array" THEN Len(c.items) ELSE c.len

\* ((recentAvg - olderAvg) / olderAvg) * 100 > t, where recentAvg = rs / rn and
\* olderAvg = os / on.  An empty older window makes olderAvg 0/0 = NaN, and a
\* zero olderAvg makes the quotient +-Infinity or NaN; every comparison with
\* NaN is false.
TrendAbove(rs, rn, os, on, t) ==
    IF on = 0 THEN FALSE
    ELSE IF os = 0 THEN rs > 0
    ELSE IF os > 0 THEN (rs * on - os * rn) * 100 > t * os * rn
    ELSE (rs * on - os * rn) * 100 < t * os * rn

\* the outcome of calculateTrendScore: a value, or a TypeError
calculateTrendScore(historicalData) ==
    IF historicalData.isNull \/ ~CTruthy(historicalData.c)
       \/ CLength(historicalData.c) < 10
    THEN [raised |-> FALSE, value |-> 50]
    ELSE IF historicalData.c.kind # "array"
    THEN [raised |-> TRUE, value |-> 0]
    ELSE LET prices       == SliceFrom(historicalData.c.items, -20)
             recentPrices == SliceFrom(prices, -5)
             olderPrices  == Slice(prices, -20, -15)
             rs == SumSeq(recentPrices)
             rn == Len(recentPrices)
             os == SumSeq(olderPrices)
             on == Len(olderPrices)
             score == IF TrendAbove(rs, rn, os, on, 10) THEN 90
                      ELSE IF TrendAbove(rs, rn, os, on, 5) THEN 80
                      ELSE IF TrendAbove(rs, rn, os, on, 0) THEN 65
                      ELSE IF TrendAbove(rs, rn, os, on, -5) THEN 35
                      ELSE IF TrendAbove(rs, rn, os, on, -10) THEN 20
                      ELSE 10
         IN  [raised |-> FALSE, value |-> score]

\* a variant with the tiers of the fundamental label (75 and 60)
getScoreLabelOtherTiers(score) ==
    IF score >= 75
    THEN [label |-> scoreThresholds.strong.label, color |-> scoreThresholds.strong.color]
    ELSE IF score >= 60
    THEN [label |-> scoreThresholds.moderate.label, color |-> scoreThresholds.moderate.color]
    ELSE [label |-> scoreThresholds.weak.label, color |-> scoreThresholds.weak.color]

\* getScoreLabel reading a given value of this.scoreThresholds
getScoreLabelFrom(thresholds, score) ==
    IF score >= thresholds.strong.min
    THEN [label |-> thresholds.strong.label, color |-> thresholds.strong.color]
    ELSE IF score >= thresholds.moderate.min
    THEN [label |-> thresholds.moderate.label, color |-> thresholds.moderate.color]
    ELSE [label |-> thresholds.weak.label, color |-> thresholds.weak.color]

\* getScoreLabel on the thresholds the constructor builds
getScoreLabel(score) == getScoreLabelFrom(scoreThresholds, score)

generateExplanation(scores, quote) ==
    LET price == IF scores["price"] > 70 THEN <<"strong price performance">>
                 ELSE IF scores["price"] < 30 THEN <<"weak price performance">>
                 ELSE <<>>
        momentum == IF scores["momentum"] > 70 THEN <<"positive momentum">>
                    ELSE IF scores["momentum"] < 30 THEN <<"negative momentum">>
                    ELSE <<>>
        volatility == IF scores["volatility"] > 70 THEN <<"low volatility">>
                      ELSE IF scores["volatility"] < 30 THEN <<"high volatility">>
                      ELSE <<>>
        explanations == price \o momentum \o volatility
    IN  IF Len(explanations) = 0 THEN <<"Mixed signals from various indicators">>
        ELSE <<"Based on">> \o explanations

getRecommendation(score) ==
    IF score >= 70 THEN "Consider"
    ELSE IF score >= 40 THEN "Monitor"
    ELSE "Caution"

\* the condition under which calculateScore adds the trend sub-score
HasTrendData(historicalData) ==
    /\ ~historicalData.isNull
    /\ CTruthy(historicalData.c)
    /\ CLength(historicalData.c) > 1

BaseKeys == {"price", "momentum", "volatility", "market"}

\* the value calculateScore returns from its catch block
CatchResult ==
    [score |-> 50, label |-> "Neutral", color |-> "#6B7280",
     breakdown |-> [k \in {} |-> 0],
     explanation |-> <<"Unable to calculate score due to insufficient data">>]

ScoreOrder == <<"price", "momentum", "volatility", "market", "trend">>

\* totalScore after the forEach over the keys of scores (weights in hundredths)
TotalScore(scores) ==
    SumSeq([i \in 1..Len(ScoreOrder) |->
              IF ScoreOrder[i] \in DOMAIN scores
              THEN scores[ScoreOrder[i]] * weights[ScoreOrder[i]] ELSE 0])

\* a variant that tests scores[key] for truthiness, so that a sub-score of 0
\* adds no weight
TotalWeightTruthy(scores) ==
    SumSeq([i \in 1..Len(ScoreOrder) |->
              IF ScoreOrder[i] \in DOMAIN scores /\ scores[ScoreOrder[i]] # 0
              THEN weights[ScoreOrder[i]] ELSE 0])

\* totalWeight after the forEach over the keys of scores (in hundredths)
TotalWeight(scores) ==
    SumSeq([i \in 1..Len(ScoreOrder) |->
              IF ScoreOrder[i] \in DOMAIN scores THEN weights[ScoreOrder[i]] ELSE 0])

FinalScore(scores) ==
    IF TotalWeight(scores) > 0 THEN MathRound(TotalScore(scores), TotalWeight(scores))
    ELSE 50

\* a variant that returns the rounded composite without clamping it
ComposeUnclamped(scores, quote) ==
    [score |-> FinalScore(scores),
     label |-> getScoreLabel(FinalScore(scores)).label,
     color |-> getScoreLabel(FinalScore(scores)).color,
     breakdown |-> scores,
     explanation |-> generateExplanation(scores, quote)]

\* the object calculateScore returns from its try block
Compose(scores, quote) ==
    [score |-> Max(0, Min(100, FinalScore(scores))),
     label |-> getScoreLabel(FinalScore(scores)).label,
     color |-> getScoreLabel(FinalScore(scores)).color,
     breakdown |-> scores,
     explanation |-> generateExplanation(scores, quote)]

\* the try block of calculateScore: its value, or the exception raised in it
TryBlock(quote, profile, historicalData) ==
    LET trend == calculateTrendScore(historicalData)
        keys  == IF HasTrendData(historicalData) THEN BaseKeys \cup {"trend"} ELSE BaseKeys
        scores == [k \in keys |->
                     CASE k = "price"      -> calculatePriceScore(quote)
                       [] k = "momentum"   -> calculateMomentumScore(quote)
                       [] k = "volatility" -> calculateVolatilityScore(quote)
                       [] k = "market"     -> calculateMarketScore(profile)
                       [] k = "trend"      -> trend.value]
    IN  IF HasTrendData(historicalData) /\ trend.raised
        THEN [raised |-> TRUE, value |-> CatchResult]
        ELSE [raised |-> FALSE, value |-> Compose(scores, quote)]

\* a variant without the try/catch: the exception reaches the caller
calculateScoreNoCatch(quote, profile, historicalData) ==
    TryBlock(quote, profile, historicalData)

calculateScore(quote, profile, historicalData) ==
    LET r == TryBlock(quote, profile, historicalData)
    IN  IF r.raised THEN [raised |-> FALSE, value |-> CatchResult] ELSE r

\* calculateScore reading a given value of this.scoreThresholds: the label
\* and the colour of a result of the try block are looked up in it
calculateScoreFrom(thresholds, quote, profile, historicalData) ==
    LET r == calculateScore(quote, profile, historicalData)
        label == getScoreLabelFrom(thresholds, FinalScore(r.value.breakdown))
    IN  IF TryBlock(quote, profile, historicalData).raised THEN r
        ELSE [r EXCEPT !.value.label = label.label, !.value.color = label.color]

(***************************************************************************)
(* FundamentalAnalysisService (ratios and benchmarks in hundredths)        *)
(***************************************************************************)
industryBenchmarks ==
    [technology |-> [peRatio |-> 2500, pbRatio |-> 450, roe |-> 1500,
                     debtToEquity |-> 30, currentRatio |-> 200, profitMargin |-> 2000],
     healthcare |-> [peRatio |-> 1800, pbRatio |-> 320, roe |-> 1200,
                     debtToEquity |-> 40, currentRatio |-> 250, profitMargin |-> 1500],
     financial  |-> [peRatio |-> 1200, pbRatio |-> 120, roe |-> 1000,
                     debtToEquity |-> 80, currentRatio |-> 110, profitMargin |-> 2500],
     default    |-> [peRatio |-> 2000, pbRatio |-> 250, roe |-> 1200,
                     debtToEquity |-> 50, currentRatio |-> 200, profitMargin |-> 1000]]

\* the keywords of getIndustryBenchmark that industry.toLowerCase() includes,
\* for the industry names drawn; "" stands for an absent name
IncludedKeywords(industry) ==
    CASE industry = "Technology"         -> {"technology"}
      [] industry = "Software"           -> {"software"}
      [] industry = "Pharmaceuticals"    -> {"pharmaceutical"}
      [] industry = "Banking"            -> {"bank"}
      [] industry = "Financial Software" -> {"financial", "software"}
      [] OTHER                           -> {}

\* getIndustryBenchmark reading a given value of this.industryBenchmarks
getIndustryBenchmarkFrom(benchmarks, industry) ==
    LET industryLower == IncludedKeywords(industry)
    IN  IF "technology" \in industryLower \/ "software" \in industryLower
        THEN benchmarks.technology
        ELSE IF "healthcare" \in industryLower \/ "pharmaceutical" \in industryLower
        THEN benchmarks.healthcare
        ELSE IF "financial" \in industryLower \/ "bank" \in industryLower
        THEN benchmarks.financial
        ELSE benchmarks.default

\* getIndustryBenchmark on the table the constructor builds
getIndustryBenchmark(industry) == getIndustryBenchmarkFrom(industryBenchmarks, industry)

\* a variant of the lookup that keeps the entry found as the new default
TableAfterLookupCaching(benchmarks, industry) ==
    [benchmarks EXCEPT !.default = getIndustryBenchmarkFrom(benchmarks, industry)]

\* this.industryBenchmarks after getIndustryBenchmark(industry): the method
\* returns an entry and assigns nothing
TableAfterLookup(benchmarks, industry) == benchmarks

\* the provider keys the service reads
MetricKeys ==
    {"peBasicExclExtraTTM", "peTTM", "pbQuarterly", "pbAnnual", "roeRfy", "roeTTM",
     "roaRfy", "roaTTM", "epsBasicExclExtraItemsTTM", "epsTTM",
     "bookValuePerShareQuarterly", "bookValuePerShareAnnual",
     "totalDebt2EquityQuarterly", "totalDebt2EquityAnnual",
     "currentRatioQuarterly", "currentRatioAnnual",
     "quickRatioQuarterly", "quickRatioAnnual",
     "netProfitMarginTTM", "operatingMarginTTM",
     "dividendYieldIndicatedAnnual", "dividendsPerShareTTM",
     "revenueGrowthTTMYoy", "epsGrowthTTMYoy"}

\* a || b on optional numbers: a when a is truthy, otherwise b
Or(a, b) == IF Truthy(a) THEN a ELSE b

\* Number.prototype.toFixed(digits) of a value in hundredths, digits in {1, 2}:
\* the value in tenths, or in hundredths
ToFixed(v, digits) == IF digits = 1 THEN MathRound(v, 10) ELSE v

Insight(type, text, shown) == [type |-> type, text |-> <<text, shown>>]

extractKeyRatios(metrics) ==
    [peRatio          |-> Or(Or(metrics["peBasicExclExtraTTM"], metrics["peTTM"]), Null),
     pbRatio          |-> Or(Or(metrics["pbQuarterly"], metrics["pbAnnual"]), Null),
     roe              |-> Or(Or(metrics["roeRfy"], metrics["roeTTM"]), Null),
     roa              |-> Or(Or(metrics["roaRfy"], metrics["roaTTM"]), Null),
     eps              |-> Or(Or(metrics["epsBasicExclExtraItemsTTM"], metrics["epsTTM"]), Null),
     bookValue        |-> Or(Or(metrics["bookValuePerShareQuarterly"],
                                metrics["bookValuePerShareAnnual"]), Null),
     debtToEquity     |-> Or(Or(metrics["totalDebt2EquityQuarterly"],
                                metrics["totalDebt2EquityAnnual"]), Null),
     currentRatio     |-> Or(Or(metrics["currentRatioQuarterly"],
                                metrics["currentRatioAnnual"]), Null),
     quickRatio       |-> Or(Or(metrics["quickRatioQuarterly"], metrics["quickRatioAnnual"]), Null),
     profitMargin     |-> Or(metrics["netProfitMarginTTM"], Null),
     operatingMargin  |-> Or(metrics["operatingMarginTTM"], Null),
     dividendYield    |-> Or(metrics["dividendYieldIndicatedAnnual"], Null),
     dividendPerShare |-> Or(metrics["dividendsPerShareTTM"], Null),
     revenueGrowth    |-> Or(metrics["revenueGrowthTTMYoy"], Null),
     epsGrowth        |-> Or(metrics["epsGrowthTTMYoy"], Null)]

analyzeValuation(metrics, industry) ==
    LET peRatio == Or(metrics["peBasicExclExtraTTM"], metrics["peTTM"])
        pbRatio == Or(metrics["pbQuarterly"], metrics["pbAnnual"])
        pe == IF ~Truthy(peRatio) THEN [delta |-> 0, insights |-> <<>>]
              ELSE IF Val(peRatio) * 10 < industry.peRatio * 8
              THEN [delta |-> 15, insights |->
                     <<Insight("positive", "P/E below industry average", ToFixed(Val(peRatio), 1))>>]
              ELSE IF Val(peRatio) * 10 > industry.peRatio * 15
              THEN [delta |-> -10, insights |->
                     <<Insight("negative", "P/E significantly above industry average",
                               ToFixed(Val(peRatio), 1))>>]
              ELSE [delta |-> 0, insights |->
                     <<Insight("neutral", "P/E reasonable", ToFixed(Val(peRatio), 1))>>]
        pb == IF ~Truthy(pbRatio) THEN [delta |-> 0, insights |-> <<>>]
              ELSE IF Val(pbRatio) < 100
              THEN [delta |-> 10, insights |->
                     <<Insight("positive", "P/B below 1.0", ToFixed(Val(pbRatio), 2))>>]
              ELSE IF Val(pbRatio) * 10 > industry.pbRatio * 15
              THEN [delta |-> -5, insights |->
                     <<Insight("negative", "P/B high", ToFixed(Val(pbRatio), 2))>>]
              ELSE [delta |-> 0, insights |-> <<>>]
    IN  [score |-> 50 + pe.delta + pb.delta,
         insights |-> pe.insights \o pb.insights,
         ratios |-> [peRatio |-> [value |-> peRatio, benchmark |-> Some(industry.peRatio)],
                     pbRatio |-> [value |-> pbRatio, benchmark |-> Some(industry.pbRatio)]]]

analyzeProfitability(metrics, industry) ==
    LET roe == Or(metrics["roeRfy"], metrics["roeTTM"])
        roa == Or(metrics["roaRfy"], metrics["roaTTM"])
        profitMargin == metrics["netProfitMarginTTM"]
        operatingMargin == metrics["operatingMarginTTM"]
        r == IF ~Truthy(roe) THEN [delta |-> 0, insights |-> <<>>]
             ELSE IF Val(roe) > industry.roe
             THEN [delta |-> 15, insights |->
                    <<Insight("positive", "Strong ROE", ToFixed(Val(roe), 1))>>]
             ELSE IF Val(roe) * 10 < industry.roe * 7
             THEN [delta |-> -10, insights |->
                    <<Insight("negative", "ROE below industry standards", ToFixed(Val(roe), 1))>>]
             ELSE [delta |-> 0, insights |-> <<>>]
        m == IF ~Truthy(profitMargin) THEN [delta |-> 0, insights |-> <<>>]
             ELSE IF Val(profitMargin) > industry.profitMargin
             THEN [delta |-> 10, insights |->
                    <<Insight("positive", "Healthy profit margin", ToFixed(Val(profitMargin), 1))>>]
             ELSE IF Val(profitMargin) < 500
             THEN [delta |-> -10, insights |->
                    <<Insight("negative", "Low profit margin", ToFixed(Val(profitMargin), 1))>>]
             ELSE [delta |-> 0, insights |-> <<>>]
    IN  [score |-> 50 + r.delta + m.delta,
         insights |-> r.insights \o m.insights,
         ratios |-> [roe |-> [value |-> roe, benchmark |-> Some(industry.roe)],
                     roa |-> [value |-> roa, benchmark |-> Some(500)],
                     profitMargin |-> [value |-> profitMargin,
                                       benchmark |-> Some(industry.profitMargin)],
                     operatingMargin |-> [value |-> operatingMargin, benchmark |-> Some(1500)]]]

analyzeLiquidity(metrics, industry) ==
    LET currentRatio == Or(metrics["currentRatioQuarterly"], metrics["currentRatioAnnual"])
        quickRatio == Or(metrics["quickRatioQuarterly"], metrics["quickRatioAnnual"])
        cr == IF ~Truthy(currentRatio) THEN [delta |-> 0, insights |-> <<>>]
              ELSE IF Val(currentRatio) >= 200
              THEN [delta |-> 15, insights |->
                     <<Insight("positive", "Strong current ratio", ToFixed(Val(currentRatio), 2))>>]
              ELSE IF Val(currentRatio) < 100
              THEN [delta |-> -15, insights |->
                     <<Insight("negative", "Current ratio below 1.0",
                               ToFixed(Val(currentRatio), 2))>>]
              ELSE [delta |-> 0, insights |-> <<>>]
        qr == IF Truthy(quickRatio) /\ Val(quickRatio) >= 100
              THEN [delta |-> 10, insights |->
                     <<Insight("positive", "Quick ratio meets obligations",
                               ToFixed(Val(quickRatio), 2))>>]
              ELSE [delta |-> 0, insights |-> <<>>]
    IN  [score |-> 50 + cr.delta + qr.delta,
         insights |-> cr.insights \o qr.insights,
         ratios |-> [currentRatio |-> [value |-> currentRatio,
                                       benchmark |-> Some(industry.currentRatio)],
                     quickRatio |-> [value |-> quickRatio, benchmark |-> Some(100)]]]

\* a variant without the null check: a missing ratio compares as 0
analyzeLeverageNoNullCheck(metrics, industry) ==
    LET debtToEquity == Or(metrics["totalDebt2EquityQuarterly"],
                           metrics["totalDebt2EquityAnnual"])
        d  == IF debtToEquity = Null THEN 0 ELSE Val(debtToEquity)
        de == IF d * 10 < industry.debtToEquity * 7
              THEN [delta |-> 15, insights |->
                     <<Insight("positive", "Conservative debt-to-equity", ToFixed(d, 2))>>]
              ELSE IF d * 10 > industry.debtToEquity * 15
              THEN [delta |-> -15, insights |->
                     <<Insight("negative", "High debt-to-equity", ToFixed(d, 2))>>]
              ELSE [delta |-> 0, insights |->
                     <<Insight("neutral", "Debt-to-equity within reasonable range",
                               ToFixed(d, 2))>>]
    IN  [score |-> 50 + de.delta,
         insights |-> de.insights,
         ratios |-> [debtToEquity |-> [value |-> debtToEquity,
                                       benchmark |-> Some(industry.debtToEquity)]]]

analyzeLeverage(metrics, industry) ==
    LET debtToEquity == Or(metrics["totalDebt2EquityQuarterly"],
                           metrics["totalDebt2EquityAnnual"])
        de == IF debtToEquity = Null THEN [delta |-> 0, insights |-> <<>>]
              ELSE IF Val(debtToEquity) * 10 < industry.debtToEquity * 7
              THEN [delta |-> 15, insights |->
                     <<Insight("positive", "Conservative debt-to-equity",
                               ToFixed(Val(debtToEquity), 2))>>]
              ELSE IF Val(debtToEquity) * 10 > industry.debtToEquity * 15
              THEN [delta |-> -15, insights |->
                     <<Insight("negative", "High debt-to-equity", ToFixed(Val(debtToEquity), 2))>>]
              ELSE [delta |-> 0, insights |->
                     <<Insight("neutral", "Debt-to-equity within reasonable range",
                               ToFixed(Val(debtToEquity), 2))>>]
    IN  [score |-> 50 + de.delta,
         insights |-> de.insights,
         ratios |-> [debtToEquity |-> [value |-> debtToEquity,
                                       benchmark |-> Some(industry.debtToEquity)]]]

analyzeDividend(metrics) ==
    LET dividendYield == metrics["dividendYieldIndicatedAnnual"]
        dividendPerShare == metrics["dividendsPerShareTTM"]
        dy == IF ~Truthy(dividendYield) THEN [delta |-> 0, insights |-> <<>>]
              ELSE IF Val(dividendYield) > 600
              THEN [delta |-> -5, insights |->
                     <<Insight("warning", "Very high dividend yield",
                               ToFixed(Val(dividendYield), 2))>>]
              ELSE IF Val(dividendYield) >= 200 /\ Val(dividendYield) <= 600
              THEN [delta |-> 10, insights |->
                     <<Insight("positive", "Attractive dividend yield",
                               ToFixed(Val(dividendYield), 2))>>]
              ELSE IF Val(dividendYield) = 0
              THEN [delta |-> 0, insights |->
                     <<Insight("neutral", "Company does not pay dividends", 0)>>]
              ELSE [delta |-> 0, insights |-> <<>>]
    IN  [score |-> 50 + dy.delta,
         insights |-> dy.insights,
         ratios |-> [dividendYield |-> [value |-> dividendYield, benchmark |-> Some(300)],
                     dividendPerShare |-> [value |-> dividendPerShare, benchmark |-> Null]]]

analyzeGrowth(metrics) ==
    LET revenueGrowth == metrics["revenueGrowthTTMYoy"]
        epsGrowth == metrics["epsGrowthTTMYoy"]
        rg == IF ~Truthy(revenueGrowth) THEN [delta |-> 0, insights |-> <<>>]
              ELSE IF Val(revenueGrowth) > 2000
              THEN [delta |-> 20, insights |->
                     <<Insight("positive", "Strong revenue growth",
                               ToFixed(Val(revenueGrowth), 1))>>]
              ELSE IF Val(revenueGrowth) < 0
              THEN [delta |-> -15, insights |->
                     <<Insight("negative", "Negative revenue growth",
                               ToFixed(Val(revenueGrowth), 1))>>]
              ELSE [delta |-> 0, insights |-> <<>>]
        eg == IF ~Truthy(epsGrowth) THEN [delta |-> 0, insights |-> <<>>]
              ELSE IF Val(epsGrowth) > 1500
              THEN [delta |-> 15, insights |->
                     <<Insight("positive", "Excellent EPS growth", ToFixed(Val(epsGrowth), 1))>>]
              ELSE IF Val(epsGrowth) < -1000
              THEN [delta |-> -15, insights |->
                     <<Insight("negative", "Declining EPS growth", ToFixed(Val(epsGrowth), 1))>>]
              ELSE [delta |-> 0, insights |-> <<>>]
    IN  [score |-> 50 + rg.delta + eg.delta,
         insights |-> rg.insights \o eg.insights,
         ratios |-> [revenueGrowth |-> [value |-> revenueGrowth, benchmark |-> Some(1000)],
                     epsGrowth |-> [value |-> epsGrowth, benchmark |-> Some(1000)]]]

\* the label of a weighted score given in hundredths of a point
getScoreLabelFund(score) ==
    IF score >= 7500 THEN [text |-> "Excellent", color |-> "#059669"]
    ELSE IF score >= 6000 THEN [text |-> "Good", color |-> "#0891b2"]
    ELSE IF score >= 4000 THEN [text |-> "Fair", color |-> "#d97706"]
    ELSE [text |-> "Poor", color |-> "#dc2626"]

Categories == <<"valuation", "profitability", "liquidity", "leverage", "dividend", "growth">>

CountType(insights, type) == Cardinality({i \in 1..Len(insights) : insights[i].type = type})

generateOverallSummary(analysis) ==
    LET positives == SumSeq([i \in 1..Len(Categories) |->
                               CountType(analysis[Categories[i]].insights, "positive")])
        negatives == SumSeq([i \in 1..Len(Categories) |->
                               CountType(analysis[Categories[i]].insights, "negative")])
        summary == IF positives > negatives THEN "strong fundamental metrics"
                   ELSE IF negatives > positives THEN "some fundamental challenges"
                   ELSE "mixed fundamental signals"
    IN  <<summary, positives, negatives>>

\* a variant in which growth weighs 0.20, so that the weights sum to 1.10
overallWeightsHeavyGrowth == <<25, 25, 15, 15, 10, 20>>

\* the weights of calculateOverallScore, in hundredths, in the order of Categories
overallWeights == <<25, 25, 15, 15, 10, 10>>

\* scores.reduce(...) of calculateOverallScore, in hundredths of a point
WeightedScore(analysis) ==
    SumSeq([i \in 1..Len(Categories) |-> analysis[Categories[i]].score * overallWeights[i]])

calculateOverallScore(analysis) ==
    LET weightedScore == WeightedScore(analysis)
    IN  [score |-> MathRound(Max(0, Min(10000, weightedScore)), 100),
         label |-> getScoreLabelFund(weightedScore),
         summary |-> generateOverallSummary(analysis)]

\* the result of analyzeFundamentals when it returns null
Unavailable == [isNull |-> TRUE]

\* the analysis object analyzeFundamentals builds and returns
Analysis(metrics, industry) ==
    LET analysis == [valuation     |-> analyzeValuation(metrics, industry),
                     profitability |-> analyzeProfitability(metrics, industry),
                     liquidity     |-> analyzeLiquidity(metrics, industry),
                     leverage      |-> analyzeLeverage(metrics, industry),
                     dividend      |-> analyzeDividend(metrics),
                     growth        |-> analyzeGrowth(metrics)]
    IN  [isNull |-> FALSE, keyRatios |-> extractKeyRatios(metrics),
         valuation |-> analysis.valuation, profitability |-> analysis.profitability,
         liquidity |-> analysis.liquidity, leverage |-> analysis.leverage,
         dividend |-> analysis.dividend, growth |-> analysis.growth,
         overall |-> calculateOverallScore(analysis)]

IndustryOf(profile) == IF profile.isNull THEN "" ELSE profile.finnhubIndustry

\* a variant that analyses an empty metric map when the input is absent
analyzeFundamentalsDegraded(basicFinancials, profile) ==
    IF basicFinancials.isNull \/ basicFinancials.metric.isNull
    THEN Analysis([k \in MetricKeys |-> Null], getIndustryBenchmark(IndustryOf(profile)))
    ELSE Analysis(basicFinancials.metric.map, getIndustryBenchmark(IndustryOf(profile)))

\* analyzeFundamentals reading a given value of this.industryBenchmarks
analyzeFundamentalsFrom(benchmarks, basicFinancials, profile) ==
    IF basicFinancials.isNull \/ basicFinancials.metric.isNull THEN Unavailable
    ELSE LET metrics  == basicFinancials.metric.map
             industry == getIndustryBenchmarkFrom(benchmarks, IndustryOf(profile))
         IN  Analysis(metrics, industry)

analyzeFundamentals(basicFinancials, profile) ==
    analyzeFundamentalsFrom(industryBenchmarks, basicFinancials, profile)

(***************************************************************************)
(* aggregateSentiments (sentiment service)                                 *)
(*   A result is [label, error]; error "" stands for a result without an   *)
(*   error (undefined and the empty string are both falsy).                *)
(***************************************************************************)
StrTruthy(str) == str # ""

\* a variant of the reducer that counts every result under its label
CountStepByLabel(acc, result) ==
    [acc EXCEPT ![result.label] = @ + 1]

\* the reducer of aggregateSentiments
CountStep(acc, result) ==
    IF StrTruthy(result.error)
    THEN [acc EXCEPT !["neutral"] = @ + 1]
    ELSE [acc EXCEPT ![result.label] = @ + 1]

\* sentimentResults.reduce(CountStep, acc)
RECURSIVE Reduce(_, _)
Reduce(results, acc) ==
    IF results = <<>> THEN acc ELSE Reduce(Tail(results), CountStep(acc, Head(results)))

\* a variant that compares the positive and negative counts with each other only
OverallIgnoringNeutral(counts) ==
    IF counts["positive"] > counts["negative"] THEN "positive"
    ELSE IF counts["negative"] > counts["positive"] THEN "negative"
    ELSE "neutral"

Overall(counts) ==
    IF counts["positive"] > counts["negative"] + counts["neutral"] THEN "positive"
    ELSE IF counts["negative"] > counts["positive"] + counts["neutral"] THEN "negative"
    ELSE "neutral"

\* a variant that truncates the percentage
PercentageFloor(count, total) == FloorDiv(count * 100, total)

\* Math.round((count / total) * 100)
Percentage(count, total) == MathRound(count * 100, total)

SummaryText(overall, counts) ==
    IF overall = "positive"
    THEN <<"Recent news is mostly positive",
           counts["positive"], counts["neutral"], counts["negative"]>>
    ELSE IF overall = "negative"
    THEN <<"Recent news is mostly negative",
           counts["negative"], counts["neutral"], counts["positive"]>>
    ELSE <<"Recent news sentiment is mixed",
           counts["positive"], counts["neutral"], counts["negative"]>>

\* the summary returned for an absent or empty list: it has no total and no
\* percentages
EmptySummary ==
    [positive |-> 0, neutral |-> 0, negative |-> 0, overall |-> "neutral",
     summary |-> <<"No sentiment data available.">>]

aggregateSentiments(sentimentResults) ==
    IF sentimentResults.isNull \/ Len(sentimentResults.items) = 0 THEN EmptySummary
    ELSE LET counts  == Reduce(sentimentResults.items,
                               [positive |-> 0, neutral |-> 0, negative |-> 0])
             total   == counts["positive"] + counts["neutral"] + counts["negative"]
             overall == Overall(counts)
         IN  [positive |-> counts["positive"],
              neutral  |-> counts["neutral"],
              negative |-> counts["negative"],
              total    |-> total,
              overall  |-> overall,
              summary  |-> SummaryText(overall, counts),
              percentages |-> [positive |-> Percentage(counts["positive"], total),
                               neutral  |-> Percentage(counts["neutral"], total),
                               negative |-> Percentage(counts["negative"], total)]]

(***************************************************************************)
(* Inputs of calculateScore                                                *)
(***************************************************************************)
\* the longest historical series drawn
MaxCloses == 21

NullQuote == [isNull |-> TRUE, c |-> Null, h |-> Null, l |-> Null, pc |-> Null, dp |-> Null]

\* quotes with fields present or missing, a zero price, an empty day range
\* (h = l) and a current price below, inside and above the day's range
Quotes ==
    {NullQuote} \cup
    [isNull : {FALSE},
     c  : {Null, Some(0), Some(80), Some(97), Some(100), Some(130)},
     h  : {Null, Some(110)},
     l  : {Null, Some(90), Some(110)},
     pc : {Null, Some(400), Some(2000)},
     dp : {Null, Some(-6), Some(-5), Some(-2), Some(0), Some(2), Some(5), Some(6)}]

NullProfile == [isNull |-> TRUE, marketCapitalization |-> Null, finnhubIndustry |-> ""]

ScoreProfiles ==
    {NullProfile} \cup
    [isNull : {FALSE},
     marketCapitalization : {Null, Some(300), Some(2001), Some(10001)},
     finnhubIndustry : {""}]

NullHistory == [isNull |-> TRUE, c |-> [kind |-> "absent", items |-> <<>>, len |-> 0]]

ArrayOf(items) == [isNull |-> FALSE, c |-> [kind |-> "array", items |-> items, len |-> Len(items)]]

StringOf(n) == [isNull |-> FALSE, c |-> [kind |-> "string", items |-> <<>>, len |-> n]]

\* n closes: the last five at the level recent, the ones before at the level older
Closes(n, older, recent) == [i \in 1..n |-> IF i <= n - 5 THEN older ELSE recent]

Histories ==
    {NullHistory, [NullHistory EXCEPT !.isNull = FALSE], StringOf(5), StringOf(12)}
    \cup {ArrayOf(Closes(n, 100, 111)) : n \in 0..MaxCloses}
    \cup {ArrayOf(Closes(MaxCloses, older, 100)) : older \in {0, 100, 120}}

(***************************************************************************)
(* SpecScore: one call of calculateScore on any of the inputs above        *)
(***************************************************************************)
Idle == <<>>

\* the parts of the state a specification leaves untouched
PureIdle ==
    /\ scoreIn = Idle /\ scoreOut = Idle
    /\ fundIn = Idle /\ fundOut = Idle
    /\ sentIn = Idle /\ sentOut = Idle

\* no call made, the singletons as their constructors leave them
LogIdle ==
    /\ callLog = <<>>
    /\ benchmarksTable = industryBenchmarks
    /\ thresholdsTable = scoreThresholds
    /\ requests = <<>>

HandlerIdle == hpc = "idle" /\ fetched = Idle /\ response = Idle

MultiIdle ==
    /\ mpc = "idle" /\ apiKeySet = FALSE /\ headlines = <<>> /\ batchStart = 0
    /\ calls = <<>> /\ settleOrder = <<>> /\ allResults = <<>>

\* no webhook request received, no secret configured
WebhookIdle ==
    /\ webhookSecret = Null /\ webhookEvents = <<>> /\ received = 0
    /\ exchange = Idle

\* the App as mounted: useState(null), useState({isLoading: false, error: null})
AppIdle ==
    /\ stockData = Null
    /\ loadingState = [isLoading |-> FALSE, error |-> Null]
    /\ fetches = <<>>

InitScore ==
    /\ scoreIn \in Quotes \X ScoreProfiles \X Histories
    /\ scoreOut = Idle
    /\ fundIn = Idle /\ fundOut = Idle
    /\ sentIn = Idle /\ sentOut = Idle
    /\ LogIdle /\ HandlerIdle /\ MultiIdle /\ WebhookIdle /\ AppIdle

CalculateScore ==
    /\ scoreOut = Idle
    /\ scoreOut' = <<calculateScore(scoreIn[1], scoreIn[2], scoreIn[3])>>
    /\ UNCHANGED <<scoreIn, fundIn, fundOut, sentIn, sentOut>>
    /\ UNCHANGED <<logVars, handlerVars, multiVars, webhookVars, appVars>>

NextScore == CalculateScore

SpecScore == InitScore /\ [][NextScore]_vars

(***************************************************************************)
(* SpecQuote: one call of calculateScore on quotes drawn more finely: every *)
(* whole percent change up to MaxPct either way, and a current price at    *)
(* the day low, at the day high and outside the day range                  *)
(***************************************************************************)
\* the largest daily percent change drawn, either way
MaxPct == 7

FineQuotes ==
    {NullQuote} \cup
    [isNull : {FALSE},
     c  : {Null, Some(0), Some(60), Some(90), Some(100), Some(110), Some(130)},
     h  : {Null, Some(110)},
     l  : {Null, Some(90), Some(110)},
     pc : {Null, Some(100), Some(2000)},
     dp : {Null} \cup {Some(p) : p \in -MaxPct..MaxPct}]

QuoteHistories ==
    {NullHistory, StringOf(12), ArrayOf(Closes(5, 100, 111)),
     ArrayOf(Closes(MaxCloses, 100, 111))}

InitQuote ==
    /\ scoreIn \in FineQuotes \X ScoreProfiles \X QuoteHistories
    /\ scoreOut = Idle
    /\ fundIn = Idle /\ fundOut = Idle
    /\ sentIn = Idle /\ sentOut = Idle
    /\ LogIdle /\ HandlerIdle /\ MultiIdle /\ WebhookIdle /\ AppIdle

SpecQuote == InitQuote /\ [][NextScore]_vars

(***************************************************************************)
(* SpecCalls: the scoring singleton is called up to MaxCalls times, each   *)
(* time with a history of any length up to MaxCloses                       *)
(***************************************************************************)
\* the number of calls made in one behaviour
MaxCalls == 2

\* the quote of every call: inside the day range, a small gain
TrendQuote ==
    [isNull |-> FALSE, c |-> Some(100), h |-> Some(110), l |-> Some(90),
     pc |-> Some(2000), dp |-> Some(1)]

\* no history, a response without closes, and for every length a flat
\* series and a series whose last five closes are 11 percent higher
TrendHistories ==
    {NullHistory, [NullHistory EXCEPT !.isNull = FALSE]}
    \cup {ArrayOf(Closes(n, 100, 100)) : n \in 0..MaxCloses}
    \cup {ArrayOf(Closes(n, 100, 111)) : n \in 0..MaxCloses}

InitCalls ==
    /\ LogIdle
    /\ PureIdle /\ HandlerIdle /\ MultiIdle /\ WebhookIdle /\ AppIdle

LoggedCall ==
    /\ Len(callLog) < MaxCalls
    /\ \E h \in TrendHistories :
         callLog' = Append(callLog,
                           [historicalData |-> h,
                            outcome |-> calculateScore(TrendQuote, NullProfile, h)])
    /\ UNCHANGED <<benchmarksTable, thresholdsTable, requests>>
    /\ UNCHANGED <<pureVars, handlerVars, multiVars, webhookVars, appVars>>

NextCalls == LoggedCall

SpecCalls == InitCalls /\ [][NextCalls]_vars

(***************************************************************************)
(* Inputs of analyzeFundamentals                                           *)
(***************************************************************************)
\* the largest number of provider keys that hold a value in a metric map drawn
MaxMetrics == 2

\* the values drawn for a provider key, in hundredths
MetricValues(k) ==
    CASE k \in {"peBasicExclExtraTTM", "peTTM"}                      -> {0, 1000, 2000, 4000}
      [] k \in {"pbQuarterly", "pbAnnual"}                           -> {50, 1000}
      [] k \in {"roeRfy", "roeTTM"}                                  -> {500, 2000}
      [] k \in {"roaRfy", "roaTTM"}                                  -> {300}
      [] k \in {"epsBasicExclExtraItemsTTM", "epsTTM"}               -> {150}
      [] k \in {"bookValuePerShareQuarterly", "bookValuePerShareAnnual"} -> {1000}
      [] k \in {"totalDebt2EquityQuarterly", "totalDebt2EquityAnnual"}   -> {0, 10, 200}
      [] k \in {"currentRatioQuarterly", "currentRatioAnnual"}       -> {50, 250}
      [] k \in {"quickRatioQuarterly", "quickRatioAnnual"}           -> {50, 150}
      [] k = "netProfitMarginTTM"                                    -> {300, 3000}
      [] k = "operatingMarginTTM"                                    -> {1200}
      [] k = "dividendYieldIndicatedAnnual"                          -> {0, 300, 800}
      [] k = "dividendsPerShareTTM"                                  -> {100}
      [] k = "revenueGrowthTTMYoy"                                   -> {-500, 2500}
      [] k = "epsGrowthTTMYoy"                                       -> {-2000, 2000}

EmptyMetrics == [k \in MetricKeys |-> Null]

\* the metric maps in which at most n keys hold a value
RECURSIVE MetricMaps(_)
MetricMaps(n) ==
    IF n = 0 THEN {EmptyMetrics}
    ELSE LET prev == MetricMaps(n - 1)
         IN  prev \cup UNION {{[mk[1] EXCEPT ![mk[2]] = Some(v)] : v \in MetricValues(mk[2])} :
                                mk \in prev \X MetricKeys}

NullFinancials == [isNull |-> TRUE, metric |-> [isNull |-> TRUE, map |-> EmptyMetrics]]

\* a response without a metric map
NoMetricFinancials == [NullFinancials EXCEPT !.isNull = FALSE]

FinancialsOf(metrics) == [isNull |-> FALSE, metric |-> [isNull |-> FALSE, map |-> metrics]]

BasicFinancials ==
    {NullFinancials, NoMetricFinancials} \cup {FinancialsOf(m) : m \in MetricMaps(MaxMetrics)}

FundProfiles ==
    {NullProfile} \cup
    [isNull : {FALSE},
     marketCapitalization : {Null},
     finnhubIndustry : {"", "Technology", "Pharmaceuticals", "Banking",
                        "Financial Software", "Retail"}]

(***************************************************************************)
(* SpecFund: one call of analyzeFundamentals on any of the inputs above    *)
(***************************************************************************)
InitFund ==
    /\ fundIn \in BasicFinancials \X FundProfiles
    /\ fundOut = Idle
    /\ scoreIn = Idle /\ scoreOut = Idle
    /\ sentIn = Idle /\ sentOut = Idle
    /\ LogIdle /\ HandlerIdle /\ MultiIdle /\ WebhookIdle /\ AppIdle

AnalyzeFundamentals ==
    /\ fundOut = Idle
    /\ fundOut' = <<analyzeFundamentals(fundIn[1], fundIn[2])>>
    /\ UNCHANGED <<scoreIn, scoreOut, fundIn, sentIn, sentOut>>
    /\ UNCHANGED <<logVars, handlerVars, multiVars, webhookVars, appVars>>

NextFund == AnalyzeFundamentals

SpecFund == InitFund /\ [][NextFund]_vars

(***************************************************************************)
(* SpecFundFull: one call of analyzeFundamentals on the inputs of SpecFund *)
(* and on metric maps in which every scored ratio is absent, on the good   *)
(* side of its rule or on the bad side                                     *)
(***************************************************************************)
\* one provider key for each ratio a category scores
ScoredKeys ==
    {"peTTM", "pbAnnual", "roeTTM", "netProfitMarginTTM", "currentRatioAnnual",
     "quickRatioAnnual", "totalDebt2EquityAnnual", "dividendYieldIndicatedAnnual",
     "revenueGrowthTTMYoy", "epsGrowthTTMYoy"}

\* the value of a scored key at a level, in hundredths, against the default
\* benchmarks (the quick ratio has a rule on the good side only)
LevelValue(k, level) ==
    IF level = "absent" THEN Null
    ELSE CASE k = "peTTM"              -> IF level = "good" THEN Some(1000) ELSE Some(4000)
           [] k = "pbAnnual"           -> IF level = "good" THEN Some(50) ELSE Some(1000)
           [] k = "roeTTM"             -> IF level = "good" THEN Some(2000) ELSE Some(500)
           [] k = "netProfitMarginTTM" -> IF level = "good" THEN Some(3000) ELSE Some(300)
           [] k = "currentRatioAnnual" -> IF level = "good" THEN Some(250) ELSE Some(50)
           [] k = "quickRatioAnnual"   -> IF level = "good" THEN Some(150) ELSE Some(50)
           [] k = "totalDebt2EquityAnnual" -> IF level = "good" THEN Some(10) ELSE Some(200)
           [] k = "dividendYieldIndicatedAnnual" -> IF level = "good" THEN Some(300) ELSE Some(800)
           [] k = "revenueGrowthTTMYoy" -> IF level = "good" THEN Some(2500) ELSE Some(-500)
           [] k = "epsGrowthTTMYoy"    -> IF level = "good" THEN Some(2000) ELSE Some(-2000)

LevelMaps ==
    {levels \in [ScoredKeys -> {"absent", "good", "bad"}] : levels["quickRatioAnnual"] # "bad"}

MetricsAt(levels) ==
    [k \in MetricKeys |-> IF k \in ScoredKeys THEN LevelValue(k, levels[k]) ELSE Null]

FullFinancials == {FinancialsOf(MetricsAt(levels)) : levels \in LevelMaps}

InitFundFull ==
    /\ fundIn \in (BasicFinancials \X FundProfiles) \cup (FullFinancials \X {NullProfile})
    /\ fundOut = Idle
    /\ scoreIn = Idle /\ scoreOut = Idle
    /\ sentIn = Idle /\ sentOut = Idle
    /\ LogIdle /\ HandlerIdle /\ MultiIdle /\ WebhookIdle /\ AppIdle

SpecFundFull == InitFundFull /\ [][NextFund]_vars

(***************************************************************************)
(* SpecShared: two requests call calculateScore and analyzeFundamentals on *)
(* the two service singletons, their calls interleaved in any order (a     *)
(* superset of the orders the handler's awaits allow)                      *)
(***************************************************************************)
RequestIds == {1, 2}

\* what a request has fetched when it reaches the scoring calls
RequestInputs ==
    [quote : {[isNull |-> FALSE, c |-> Some(100), h |-> Some(110), l |-> Some(90),
               pc |-> Some(2000), dp |-> Some(1)],
              [isNull |-> FALSE, c |-> Some(108), h |-> Some(110), l |-> Some(90),
               pc |-> Some(2000), dp |-> Some(6)]},
     profile : {NullProfile,
                [isNull |-> FALSE, marketCapitalization |-> Some(10001),
                 finnhubIndustry |-> "Technology"],
                [isNull |-> FALSE, marketCapitalization |-> Some(300),
                 finnhubIndustry |-> "Banking"]},
     basicFinancials : {NullFinancials,
                        FinancialsOf([EmptyMetrics EXCEPT !["peTTM"] = Some(2200),
                                                          !["totalDebt2EquityAnnual"] = Some(40)])},
     historicalData : {NullHistory}]

InitShared ==
    /\ callLog = <<>>
    /\ benchmarksTable = industryBenchmarks
    /\ thresholdsTable = scoreThresholds
    /\ requests \in [RequestIds -> [input : RequestInputs, pc : {"fetched"},
                                   scoring : {Idle}, fundamentals : {Idle}]]
    /\ PureIdle /\ HandlerIdle /\ MultiIdle /\ WebhookIdle /\ AppIdle

\* stocks.js line 57, for request r: the method reads this.scoreThresholds
\* and assigns no field
RequestScores ==
    \E r \in RequestIds :
        /\ requests[r].pc = "fetched"
        /\ LET in == requests[r].input
               outcome == calculateScoreFrom(thresholdsTable, in.quote, in.profile,
                                             in.historicalData)
           IN  requests' = [requests EXCEPT ![r].scoring = <<outcome.value>>,
                                            ![r].pc = "scored"]
        /\ callLog' = Append(callLog, [request |-> r, call |-> "calculateScore"])
        /\ UNCHANGED <<benchmarksTable, thresholdsTable>>
        /\ UNCHANGED <<pureVars, handlerVars, multiVars, webhookVars, appVars>>

\* stocks.js line 58, for request r: the method reads this.industryBenchmarks
RequestAnalyzes ==
    \E r \in RequestIds :
        /\ requests[r].pc = "scored"
        /\ LET in == requests[r].input
               result == analyzeFundamentalsFrom(benchmarksTable, in.basicFinancials,
                                                 in.profile)
           IN  /\ requests' = [requests EXCEPT ![r].fundamentals = <<result>>,
                                                ![r].pc = "done"]
               /\ benchmarksTable' =
                     IF in.basicFinancials.isNull \/ in.basicFinancials.metric.isNull
                     THEN benchmarksTable
                     ELSE TableAfterLookup(benchmarksTable, IndustryOf(in.profile))
        /\ callLog' = Append(callLog, [request |-> r, call |-> "analyzeFundamentals"])
        /\ UNCHANGED thresholdsTable
        /\ UNCHANGED <<pureVars, handlerVars, multiVars, webhookVars, appVars>>

NextShared ==
    \/ RequestScores
    \/ RequestAnalyzes

SpecShared == InitShared /\ [][NextShared]_vars

(***************************************************************************)
(* Inputs of aggregateSentiments                                           *)
(***************************************************************************)
\* the longest result list drawn
MaxResults == 6

SentimentResults ==
    [label : {"positive", "neutral", "negative"}, error : {"", "Rate limit exceeded"}]

NullList == [isNull |-> TRUE, items |-> <<>>]

ListOf(items) == [isNull |-> FALSE, items |-> items]

ResultLists ==
    {NullList} \cup
    {ListOf(items) : items \in UNION {[1..n -> SentimentResults] : n \in 0..MaxResults}}

(***************************************************************************)
(* SpecSent: one call of aggregateSentiments on any of the lists above     *)
(***************************************************************************)
InitSent ==
    /\ sentIn \in ResultLists
    /\ sentOut = Idle
    /\ scoreIn = Idle /\ scoreOut = Idle
    /\ fundIn = Idle /\ fundOut = Idle
    /\ LogIdle /\ HandlerIdle /\ MultiIdle /\ WebhookIdle /\ AppIdle

AggregateSentiments ==
    /\ sentOut = Idle
    /\ sentOut' = <<aggregateSentiments(sentIn)>>
    /\ UNCHANGED <<scoreIn, scoreOut, fundIn, fundOut, sentIn>>
    /\ UNCHANGED <<logVars, handlerVars, multiVars, webhookVars, appVars>>

NextSent == AggregateSentiments

SpecSent == InitSent /\ [][NextSent]_vars

(***************************************************************************)
(* The GET /:symbol handler (backend/src/routes/stocks.js)                 *)
(***************************************************************************)
\* req.params.symbol: the router matches only a non-empty path segment
Symbols == {"aapl", "AAPL"}

toUpperCase(symbol) == IF symbol = "aapl" THEN "AAPL" ELSE symbol

\* the bodies of a successful /quote response: absent, without a current
\* price, the all-zero quote of an unknown symbol, and quotes whose composite
\* falls below 0, in each tier, and above 100
QuoteResponses ==
    {NullQuote,
     [isNull |-> FALSE, c |-> Null, h |-> Some(110), l |-> Some(90), pc |-> Some(100), dp |-> Some(1)],
     [isNull |-> FALSE, c |-> Some(0), h |-> Some(0), l |-> Some(0), pc |-> Some(0), dp |-> Null],
     [isNull |-> FALSE, c |-> Some(60), h |-> Some(110), l |-> Some(90), pc |-> Some(100), dp |-> Some(-6)],
     [isNull |-> FALSE, c |-> Some(92), h |-> Some(110), l |-> Some(90), pc |-> Some(100), dp |-> Some(-1)],
     [isNull |-> FALSE, c |-> Some(100), h |-> Some(110), l |-> Some(90), pc |-> Some(2000), dp |-> Some(1)],
     [isNull |-> FALSE, c |-> Some(108), h |-> Some(110), l |-> Some(90), pc |-> Some(2000), dp |-> Some(6)],
     [isNull |-> FALSE, c |-> Some(130), h |-> Some(110), l |-> Some(90), pc |-> Some(2000), dp |-> Some(6)]}

\* the bodies of a successful /stock/profile2 response: the empty object of
\* an unknown symbol, and a large technology company
ProfileResponses ==
    {[isNull |-> FALSE, marketCapitalization |-> Null, finnhubIndustry |-> ""],
     [isNull |-> FALSE, marketCapitalization |-> Some(10001), finnhubIndustry |-> "Technology"]}

FinancialsResponses ==
    {NoMetricFinancials, FinancialsOf(EmptyMetrics),
     FinancialsOf([EmptyMetrics EXCEPT !["peTTM"] = Some(1000), !["roeTTM"] = Some(2000)])}

\* a candle response: its status s and its closes c; one of the responses
\* drawn is malformed (c a string), which calculateScore answers with its
\* fallback
Candles(status, c) == [isNull |-> FALSE, s |-> status, c |-> c]

NullCandles == [isNull |-> TRUE, s |-> "", c |-> NullHistory.c]

CandleResponses ==
    {Candles("no_data", NullHistory.c),
     Candles("ok", ArrayOf(Closes(5, 100, 111)).c),
     Candles("ok", ArrayOf(Closes(MaxCloses, 100, 111)).c),
     Candles("ok", ArrayOf(Closes(MaxCloses, 120, 100)).c),
     Candles("ok", StringOf(12).c)}

\* a promise: pending, resolved with a value, or rejected
Pending(null) == [state |-> "pending", value |-> null]

Resolved(v) == [state |-> "resolved", value |-> v]

\* a rejected promise; value is what the handler holds in its place (null)
Rejected(null) == [state |-> "rejected", value |-> null]

\* a variant of Promise.all over the three bare promises, without the
\* .catch(() => null) on the profile and the financials promise
PromiseAllNoCatch(f) ==
    IF \E k \in {"quote", "profile", "basicFinancials"} : f[k].state = "rejected"
    THEN "rejected"
    ELSE IF \A k \in {"quote", "profile", "basicFinancials"} : f[k].state = "resolved"
    THEN "resolved"
    ELSE "pending"

\* Promise.all([getQuote, getCompanyProfile.catch(() => null),
\* getBasicFinancials.catch(() => null)]): it rejects as soon as the quote
\* promise rejects and resolves when all three have settled
PromiseAll(f) ==
    IF f["quote"].state = "rejected" THEN "rejected"
    ELSE IF \A k \in {"quote", "profile", "basicFinancials"} : f[k].state # "pending"
    THEN "resolved"
    ELSE "pending"

ErrorResponse(status, message) == [status |-> status, body |-> [error |-> message]]

\* the response object of lines 62-79 (the timestamp left out)
ResponseBody(symbol, quote, profile, scoreData, fundamentalAnalysis, historicalData) ==
    [symbol |-> symbol,
     quote |-> quote,
     profile |-> profile,
     scoring |-> [score |-> scoreData.score, label |-> scoreData.label,
                  color |-> scoreData.color, breakdown |-> scoreData.breakdown,
                  explanation |-> scoreData.explanation,
                  recommendation |-> [action |-> getRecommendation(scoreData.score)]],
     fundamentals |-> fundamentalAnalysis,
     historical |-> IF ~historicalData.isNull /\ historicalData.s = "ok"
                    THEN [isNull |-> FALSE, prices |-> historicalData.c]
                    ELSE [isNull |-> TRUE, prices |-> NullHistory.c]]

\* lines 57-81: the scoring calls and res.json; an exception raised by
\* calculateScore reaches the handler's catch
Answer(symbol, f) ==
    LET quote == f["quote"].value
        profile == f["profile"].value
        basicFinancials == f["basicFinancials"].value
        historicalData == f["historicalData"].value
        scoreOutcome == calculateScore(quote, profile, historicalData)
        fundamentalAnalysis == analyzeFundamentals(basicFinancials, profile)
    IN  IF scoreOutcome.raised THEN ErrorResponse(500, "TypeError")
        ELSE [status |-> 200,
              body |-> ResponseBody(symbol, quote, profile, scoreOutcome.value,
                                    fundamentalAnalysis, historicalData)]

(***************************************************************************)
(* SpecHandler: one request GET /:symbol                                   *)
(***************************************************************************)
InitHandler ==
    /\ hpc = "start"
    /\ fetched = [symbol |-> "",
                  quote |-> Pending(NullQuote),
                  profile |-> Pending(NullProfile),
                  basicFinancials |-> Pending(NullFinancials),
                  historicalData |-> Pending(NullCandles)]
    /\ response = Idle
    /\ PureIdle /\ LogIdle /\ MultiIdle /\ WebhookIdle /\ AppIdle

\* lines 27-38: the symbol is upper-cased and the three fetches are started
StartFetches ==
    /\ hpc = "start"
    /\ \E symbol \in Symbols :
         IF toUpperCase(symbol) = ""
         THEN /\ response' = <<ErrorResponse(400, "Stock symbol is required")>>
              /\ hpc' = "done"
              /\ UNCHANGED fetched
         ELSE /\ fetched' = [fetched EXCEPT !.symbol = toUpperCase(symbol)]
              /\ hpc' = "fetching"
              /\ UNCHANGED response
    /\ UNCHANGED <<pureVars, logVars, multiVars, webhookVars, appVars>>

\* getQuote settles: the provider answers, or the call fails and rethrows
QuoteSettles ==
    /\ hpc = "fetching"
    /\ fetched["quote"].state = "pending"
    /\ \/ \E q \in QuoteResponses : fetched' = [fetched EXCEPT !.quote = Resolved(q)]
       \/ fetched' = [fetched EXCEPT !.quote = Rejected(NullQuote)]
    /\ UNCHANGED <<hpc, response, pureVars, logVars, multiVars, webhookVars, appVars>>

\* getCompanyProfile settles
ProfileSettles ==
    /\ hpc = "fetching"
    /\ fetched["profile"].state = "pending"
    /\ \/ \E p \in ProfileResponses : fetched' = [fetched EXCEPT !.profile = Resolved(p)]
       \/ fetched' = [fetched EXCEPT !.profile = Rejected(NullProfile)]
    /\ UNCHANGED <<hpc, response, pureVars, logVars, multiVars, webhookVars, appVars>>

\* getBasicFinancials settles
FinancialsSettles ==
    /\ hpc = "fetching"
    /\ fetched["basicFinancials"].state = "pending"
    /\ \/ \E b \in FinancialsResponses :
            fetched' = [fetched EXCEPT !.basicFinancials = Resolved(b)]
       \/ fetched' = [fetched EXCEPT !.basicFinancials = Rejected(NullFinancials)]
    /\ UNCHANGED <<hpc, response, pureVars, logVars, multiVars, webhookVars, appVars>>

\* await Promise.all rejects: the handler's catch answers 500
FetchFails ==
    /\ hpc = "fetching"
    /\ PromiseAll(fetched) = "rejected"
    /\ response' = <<ErrorResponse(500, "Failed to fetch quote")>>
    /\ hpc' = "done"
    /\ UNCHANGED <<fetched, pureVars, logVars, multiVars, webhookVars, appVars>>

\* await Promise.all resolves; lines 41-51: the quote is validated and the
\* historical fetch is started
ValidateQuote ==
    /\ hpc = "fetching"
    /\ PromiseAll(fetched) = "resolved"
    /\ IF fetched["quote"].value.isNull \/ ~IsNumber(fetched["quote"].value.c)
       THEN /\ response' = <<ErrorResponse(404, "Stock symbol not found or invalid")>>
            /\ hpc' = "done"
       ELSE /\ hpc' = "historical"
            /\ UNCHANGED response
    /\ UNCHANGED <<fetched, pureVars, logVars, multiVars, webhookVars, appVars>>

\* getHistoricalData settles; on a failure historicalData stays null
HistoricalSettles ==
    /\ hpc = "historical"
    /\ fetched["historicalData"].state = "pending"
    /\ \/ \E h \in CandleResponses :
            fetched' = [fetched EXCEPT !.historicalData = Resolved(h)]
       \/ fetched' = [fetched EXCEPT !.historicalData = Rejected(NullCandles)]
    /\ hpc' = "respond"
    /\ UNCHANGED <<response, pureVars, logVars, multiVars, webhookVars, appVars>>

\* lines 57-81
Respond ==
    /\ hpc = "respond"
    /\ response' = <<Answer(fetched.symbol, fetched)>>
    /\ hpc' = "done"
    /\ UNCHANGED <<fetched, pureVars, logVars, multiVars, webhookVars, appVars>>

NextHandler ==
    \/ StartFetches
    \/ QuoteSettles
    \/ ProfileSettles
    \/ FinancialsSettles
    \/ FetchFails
    \/ ValidateQuote
    \/ HistoricalSettles
    \/ Respond

SpecHandler == InitHandler /\ [][NextHandler]_vars

(***************************************************************************)
(* analyzeSentiment and analyzeMultipleSentiments (unnamed/part_002)       *)
(*   A headline is "" (empty) or a text.  The reply of the provider to one *)
(*   classification call is the word it answers, or a failure.             *)
(***************************************************************************)
batchSize == 3

\* the replies of the provider to one call: an answer holding the word
\* positive or negative, an answer holding neither, HTTP 429, a network
\* error or timeout, and a body without choices
Replies == {"positive", "negative", "unclear", "rate_limit", "network_error", "malformed"}

FailedReplies == {"rate_limit", "network_error", "malformed"}

Sentiment(label, score, error) == [label |-> label, score |-> score, error |-> error]

\* analyzeSentiment returns before calling the provider
ReturnsEarly(text, keySet) == text = "" \/ ~keySet

\* a variant without the try/catch: a failed call rejects the promise
analyzeSentimentNoCatch(text, keySet, reply) ==
    IF text = "" THEN [raised |-> FALSE, value |-> Sentiment("neutral", 50, "Empty text")]
    ELSE IF ~keySet
    THEN [raised |-> FALSE, value |-> Sentiment("neutral", 50, "API key not configured")]
    ELSE IF reply \in FailedReplies
    THEN [raised |-> TRUE, value |-> Sentiment("neutral", 50, reply)]
    ELSE IF reply = "positive" THEN [raised |-> FALSE, value |-> Sentiment("positive", 80, "")]
    ELSE IF reply = "negative" THEN [raised |-> FALSE, value |-> Sentiment("negative", 20, "")]
    ELSE [raised |-> FALSE, value |-> Sentiment("neutral", 50, "")]

\* the outcome of analyzeSentiment(text) when the provider, if called,
\* replies reply (scores in hundredths)
analyzeSentiment(text, keySet, reply) ==
    IF text = "" THEN [raised |-> FALSE, value |-> Sentiment("neutral", 50, "Empty text")]
    ELSE IF ~keySet
    THEN [raised |-> FALSE, value |-> Sentiment("neutral", 50, "API key not configured")]
    ELSE IF reply = "rate_limit"
    THEN [raised |-> FALSE, value |-> Sentiment("neutral", 50, "Rate limit exceeded")]
    ELSE IF reply = "network_error"
    THEN [raised |-> FALSE, value |-> Sentiment("neutral", 50, "Network Error")]
    ELSE IF reply = "malformed"
    THEN [raised |-> FALSE, value |-> Sentiment("neutral", 50, "TypeError")]
    ELSE IF reply = "positive" THEN [raised |-> FALSE, value |-> Sentiment("positive", 80, "")]
    ELSE IF reply = "negative" THEN [raised |-> FALSE, value |-> Sentiment("negative", 20, "")]
    ELSE [raised |-> FALSE, value |-> Sentiment("neutral", 50, "")]

\* the promise batch.map makes for a headline: not yet made, waiting for its
\* setTimeout(index * 100), waiting for the provider, fulfilled or rejected
Promise(state, reply, value) == [state |-> state, reply |-> reply, value |-> value]

NotMade == Promise("unstarted", "", Sentiment("", 0, ""))

\* headlines.slice(i, i + batchSize), as the set of its 1-based indices
BatchIndices(items, i) == {j \in 1..Len(items) : i < j /\ j <= i + batchSize}

\* a variant of Promise.all that settles as soon as one promise has settled
PromiseAnySettled(cs, batch) ==
    IF \E j \in batch : cs[j].state = "rejected" THEN "rejected"
    ELSE IF \E j \in batch : cs[j].state = "fulfilled" THEN "fulfilled"
    ELSE "pending"

\* Promise.all(batchPromises): rejected once one promise is, fulfilled once
\* all are
PromiseAllBatch(cs, batch) ==
    IF \E j \in batch : cs[j].state = "rejected" THEN "rejected"
    ELSE IF \A j \in batch : cs[j].state = "fulfilled" THEN "fulfilled"
    ELSE "pending"

\* a variant that collects the values in the order the promises settled
BatchResultsAsSettled(cs, order, i, n) == [k \in 1..n |-> cs[order[k]].value]

\* the array Promise.all resolves with: the value of the k-th promise of the
\* batch at index k, whatever the order in which the promises settled
BatchResults(cs, order, i, n) == [k \in 1..n |-> cs[i + k].value]

\* batch.map(async ...): every promise of the batch runs up to its timer
MapBatch(cs, batch) ==
    [j \in DOMAIN cs |-> IF j \in batch THEN Promise("delaying", "", NotMade.value) ELSE cs[j]]

\* the promise of a headline once analyzeSentiment has settled with outcome
Settled(outcome, reply) ==
    Promise(IF outcome.raised THEN "rejected" ELSE "fulfilled", reply, outcome.value)

\* the longest headline list drawn
MaxHeadlines == 4

HeadlineLists ==
    {NullList} \cup
    {ListOf(items) : items \in UNION {[1..n -> {"", "Shares surge"}] : n \in 0..MaxHeadlines}}

(***************************************************************************)
(* SpecMulti: one call of analyzeMultipleSentiments                        *)
(***************************************************************************)
InitMulti ==
    /\ mpc = "start"
    /\ apiKeySet \in BOOLEAN
    /\ headlines \in HeadlineLists
    /\ batchStart = 0
    /\ calls = [j \in 1..Len(headlines.items) |-> NotMade]
    /\ settleOrder = <<>>
    /\ allResults = <<>>
    /\ PureIdle /\ LogIdle /\ HandlerIdle /\ WebhookIdle /\ AppIdle

\* lines 81-96: an absent or empty list returns []; otherwise the first
\* batch is mapped and Promise.all awaited
StartBatches ==
    /\ mpc = "start"
    /\ IF headlines.isNull \/ Len(headlines.items) = 0
       THEN /\ mpc' = "returned"
            /\ UNCHANGED calls
       ELSE /\ mpc' = "awaiting"
            /\ calls' = MapBatch(calls, BatchIndices(headlines.items, batchStart))
    /\ UNCHANGED <<apiKeySet, headlines, batchStart, settleOrder, allResults>>
    /\ UNCHANGED <<pureVars, logVars, handlerVars, webhookVars, appVars>>

\* lines 94-95: the timer of a headline fires (timers fire in the order of
\* their delays) and analyzeSentiment is called: it returns early, or posts
\* the request
TimerFires ==
    \E j \in DOMAIN calls :
        /\ calls[j].state = "delaying"
        /\ \A k \in DOMAIN calls : k < j => calls[k].state # "delaying"
        /\ calls' = [calls EXCEPT ![j] =
                        IF ReturnsEarly(headlines.items[j], apiKeySet)
                        THEN Settled(analyzeSentiment(headlines.items[j], apiKeySet, ""), "")
                        ELSE Promise("calling", "", NotMade.value)]
        /\ settleOrder' = IF ReturnsEarly(headlines.items[j], apiKeySet)
                          THEN Append(settleOrder, j) ELSE settleOrder
        /\ UNCHANGED <<mpc, apiKeySet, headlines, batchStart, allResults>>
        /\ UNCHANGED <<pureVars, logVars, handlerVars, webhookVars, appVars>>

\* the provider replies to an outstanding call, or the call fails
CallSettles ==
    \E j \in DOMAIN calls, reply \in Replies :
        /\ calls[j].state = "calling"
        /\ calls' = [calls EXCEPT ![j] =
                        Settled(analyzeSentiment(headlines.items[j], apiKeySet, reply), reply)]
        /\ settleOrder' = Append(settleOrder, j)
        /\ UNCHANGED <<mpc, apiKeySet, headlines, batchStart, allResults>>
        /\ UNCHANGED <<pureVars, logVars, handlerVars, webhookVars, appVars>>

\* lines 98-107: Promise.all settles.  Fulfilled: the batch results are
\* pushed in batch order, then the loop pauses before the next batch or the
\* function returns.  Rejected: the function rejects.
BatchSettles ==
    /\ mpc = "awaiting"
    /\ LET batch == BatchIndices(headlines.items, batchStart)
           all   == PromiseAllBatch(calls, batch)
           batchResults == BatchResults(calls, settleOrder, batchStart, Cardinality(batch))
       IN  /\ all # "pending"
           /\ IF all = "rejected"
              THEN /\ mpc' = "rejected"
                   /\ UNCHANGED <<batchStart, allResults>>
              ELSE /\ allResults' = allResults \o batchResults
                   /\ IF batchStart + batchSize < Len(headlines.items)
                      THEN /\ mpc' = "pausing"
                           /\ UNCHANGED batchStart
                      ELSE /\ mpc' = "returned"
                           /\ batchStart' = batchStart + batchSize
    /\ UNCHANGED <<apiKeySet, headlines, calls, settleOrder>>
    /\ UNCHANGED <<pureVars, logVars, handlerVars, webhookVars, appVars>>

\* lines 103 and 89-96: the pause between batches ends, i advances and the
\* next batch is mapped
NextBatch ==
    /\ mpc = "pausing"
    /\ batchStart' = batchStart + batchSize
    /\ calls' = MapBatch(calls, BatchIndices(headlines.items, batchStart + batchSize))
    /\ settleOrder' = <<>>
    /\ mpc' = "awaiting"
    /\ UNCHANGED <<apiKeySet, headlines, allResults>>
    /\ UNCHANGED <<pureVars, logVars, handlerVars, webhookVars, appVars>>

NextMulti ==
    \/ StartBatches
    \/ TimerFires
    \/ CallSettles
    \/ BatchSettles
    \/ NextBatch

SpecMulti == InitMulti /\ [][NextMulti]_vars

\* timers fire, and every request settles (it carries a 15 s timeout)
SpecMultiFair == SpecMulti /\ WF_vars(NextMulti)

(***************************************************************************)
(* The webhook router (routes/stocks.js, lines 207-368)                    *)
(***************************************************************************)
MAX_EVENTS == 100

\* process.env.FINNHUB_WEBHOOK_SECRET: unset, set to the empty string, set
ConfiguredSecrets == {Null, <<"">>, <<"s3cret">>}

\* req.headers['x-finnhub-secret']: absent, the secret, another value
SecretHeaders == {Null, <<"s3cret">>, <<"guess">>}

\* req.body: undefined when no body parser filled it, else a parsed object,
\* with or without a type field
Bodies ==
    {[defined |-> FALSE, type |-> ""], [defined |-> TRUE, type |-> ""],
     [defined |-> TRUE, type |-> "trade"]}

\* an expression !s of an optional string: undefined and '' are falsy
Falsy(s) == s = Null \/ s = <<"">>

\* the response object of a request: the responses written, and the error
\* a call on it threw
NewRes == [sent |-> <<>>, raised |-> ""]

\* res.status(status).json(body): writes the response; once a response was
\* sent, setting its headers throws ERR_HTTP_HEADERS_SENT and nothing is
\* written
ResJson(res, status, body) ==
    IF Len(res.sent) > 0
    THEN [res EXCEPT !.raised = "ERR_HTTP_HEADERS_SENT"]
    ELSE [res EXCEPT !.sent = Append(@, [status |-> status, body |-> body])]

\* verifyWebhookSecret: 500 without a configured secret, 401 for a header
\* that differs from it, else next()
verifyWebhookSecret(header, expected) ==
    IF Falsy(expected) THEN ResJson(NewRes, 500, "Webhook secret not configured")
    ELSE IF header # expected THEN ResJson(NewRes, 401, "Invalid webhook secret")
    ELSE NewRes

\* verifyWebhookSecret called next()
Verified(header, expected) == ~Falsy(expected) /\ header = expected

\* a variant that cuts the list one short
StoreEventOneShort(events, event) ==
    LET unshifted == <<event>> \o events
    IN  IF Len(unshifted) > MAX_EVENTS
        THEN SubSeq(unshifted, 1, MAX_EVENTS - 1)
        ELSE unshifted

\* webhookEvents.unshift(event); if (webhookEvents.length > MAX_EVENTS)
\* webhookEvents.splice(MAX_EVENTS)
StoreEvent(events, event) ==
    LET unshifted == <<event>> \o events
    IN  IF Len(unshifted) > MAX_EVENTS
        THEN SubSeq(unshifted, 1, MAX_EVENTS)
        ELSE unshifted

WebhookEvent(stamp, route, body) == [stamp |-> stamp, route |-> route, body |-> body]

\* the console.log of lines 256-260 throws a TypeError: JSON.stringify(
\* undefined) is undefined, which has no length
LogThrows(body) == ~body.defined

\* a variant that never acknowledges in the try block
FinnhubResponsesNoAck(body) ==
    IF LogThrows(body)
    THEN ResJson(NewRes, 200, "received, Processing failed")
    ELSE NewRes

\* the responses of the POST /finnhub handler: the acknowledgement first;
\* an exception after it reaches the catch block, which calls
\* res.status(200).json again
FinnhubResponses(body) ==
    LET acknowledged == ResJson(NewRes, 200, "received")
    IN  IF LogThrows(body)
        THEN ResJson(acknowledged, 200, "received, Processing failed")
        ELSE acknowledged

Exchange(n, route, header, body, res) ==
    <<[n |-> n, route |-> route, secret |-> header, body |-> body, res |-> res]>>

\* the requests handled so far
Handled == IF exchange = Idle THEN 0 ELSE exchange[1].n

\* the most requests handled in one behaviour
MaxRequests == 2

\* the lengths of the event list at the start
Backlogs == {0, MAX_EVENTS - 1, MAX_EVENTS}

\* the list after n test deliveries, the newest with stamp 0
Backlog(n) ==
    [i \in 1..n |-> WebhookEvent(1 - i, "test", [defined |-> TRUE, type |-> ""])]

(***************************************************************************)
(* SpecWebhook: requests to POST /finnhub and POST /test                   *)
(***************************************************************************)
InitWebhook ==
    /\ webhookSecret \in ConfiguredSecrets
    /\ webhookEvents \in {Backlog(n) : n \in Backlogs}
    /\ received = 0
    /\ exchange = Idle
    /\ PureIdle /\ LogIdle /\ HandlerIdle /\ MultiIdle /\ AppIdle

\* lines 215-275: the middleware answers 500 or 401, or the handler
\* acknowledges, stores the event, logs and processes it
PostFinnhub ==
    \E header \in SecretHeaders, body \in Bodies :
        /\ Handled < MaxRequests
        /\ IF Verified(header, webhookSecret)
           THEN /\ webhookEvents' =
                       StoreEvent(webhookEvents, WebhookEvent(received + 1, "finnhub", body))
                /\ received' = received + 1
                /\ exchange' = Exchange(Handled + 1, "finnhub", header, body,
                                        FinnhubResponses(body))
           ELSE /\ exchange' = Exchange(Handled + 1, "finnhub", header, body,
                                        verifyWebhookSecret(header, webhookSecret))
                /\ UNCHANGED <<webhookEvents, received>>
        /\ UNCHANGED webhookSecret
        /\ UNCHANGED <<pureVars, logVars, handlerVars, multiVars, appVars>>

\* lines 306-323: the test route stores the event and answers
PostTest ==
    \E header \in SecretHeaders, body \in Bodies :
        /\ Handled < MaxRequests
        /\ webhookEvents' = StoreEvent(webhookEvents, WebhookEvent(received + 1, "test", body))
        /\ received' = received + 1
        /\ exchange' = Exchange(Handled + 1, "test", header, body,
                                ResJson(NewRes, 200, "received, testMode"))
        /\ UNCHANGED webhookSecret
        /\ UNCHANGED <<pureVars, logVars, handlerVars, multiVars, appVars>>

NextWebhook ==
    \/ PostFinnhub
    \/ PostTest

SpecWebhook == InitWebhook /\ [][NextWebhook]_vars

(***************************************************************************)
(* The App component (frontend/src/App.tsx): handleStockSelect             *)
(***************************************************************************)
\* the symbols the user selects
AppSymbols == {"AAPL", "MSFT"}

\* the most handleStockSelect calls in one behaviour
MaxSelects == 3

\* the data StockService.getStockData(symbol) resolves with
StockDataOf(symbol) == <<[symbol |-> symbol]>>

Fetch(symbol, state) == [symbol |-> symbol, state |-> state]

\* the calls of handleStockSelect that are awaiting getStockData
InFlight == {k \in DOMAIN fetches : fetches[k].state = "inflight"}

(***************************************************************************)
(* SpecApp: handleStockSelect calls and their fetches, in any order        *)
(***************************************************************************)
InitApp ==
    /\ AppIdle
    /\ PureIdle /\ LogIdle /\ HandlerIdle /\ MultiIdle /\ WebhookIdle

\* lines 22-28: handleStockSelect(symbol) up to its await
SelectStock ==
    \E symbol \in AppSymbols :
        /\ Len(fetches) < MaxSelects
        /\ loadingState' = [isLoading |-> TRUE, error |-> Null]
        /\ stockData' = Null
        /\ fetches' = Append(fetches, Fetch(symbol, "inflight"))
        /\ UNCHANGED <<pureVars, logVars, handlerVars, multiVars, webhookVars>>

\* lines 28-30 and 35-37: getStockData resolved; setStockData(data), then
\* the finally block clears isLoading
FetchResolves ==
    \E k \in InFlight :
        /\ stockData' = StockDataOf(fetches[k].symbol)
        /\ loadingState' = [loadingState EXCEPT !.isLoading = FALSE]
        /\ fetches' = [fetches EXCEPT ![k].state = "resolved"]
        /\ UNCHANGED <<pureVars, logVars, handlerVars, multiVars, webhookVars>>

\* lines 31-37: getStockData rejected; the catch block sets the error, then
\* the finally block clears isLoading
FetchRejects ==
    \E k \in InFlight :
        /\ loadingState' = [isLoading |-> FALSE, error |-> <<"Request failed">>]
        /\ fetches' = [fetches EXCEPT ![k].state = "rejected"]
        /\ UNCHANGED stockData
        /\ UNCHANGED <<pureVars, logVars, handlerVars, multiVars, webhookVars>>

NextApp ==
    \/ SelectStock
    \/ FetchResolves
    \/ FetchRejects

SpecApp == InitApp /\ [][NextApp]_vars

(***************************************************************************)
(* Properties of calculateScore (checked under SpecScore)                  *)
(***************************************************************************)
Returned == scoreOut # Idle /\ ~scoreOut[1].raised

\* C1: for every quote, profile and history drawn (fields present or missing,
\* current price inside or outside the day's range) the score calculateScore
\* returns is an integer between 0 and 100.
C1_ScoreInRange ==
    Returned => scoreOut[1].value.score \in 0..100

\* C1 witness: a current price above the day's high drives the rounded weighted
\* average above 100 and the returned score is 100.
C1_Witness ==
    /\ Returned
    /\ Truthy(scoreIn[1].c) /\ Truthy(scoreIn[1].h)
    /\ Val(scoreIn[1].c) > Val(scoreIn[1].h)
    /\ FinalScore(scoreOut[1].value.breakdown) > 100
    /\ scoreOut[1].value.score = 100

\* C2: calculateScore never lets an exception reach its caller; whenever its
\* computation raises one it returns the neutral default composite (score 50,
\* label Neutral, empty breakdown, generic explanation).
C2_NeverThrows ==
    scoreOut # Idle =>
        /\ ~scoreOut[1].raised
        /\ TryBlock(scoreIn[1], scoreIn[2], scoreIn[3]).raised =>
              /\ scoreOut[1].value.score = 50
              /\ scoreOut[1].value.label = "Neutral"
              /\ DOMAIN scoreOut[1].value.breakdown = {}
              /\ scoreOut[1].value.explanation =
                    <<"Unable to calculate score due to insufficient data">>

\* C2 witness: the trend computation raised a TypeError on a malformed series
\* and the call returned the neutral default.
C2_Witness ==
    /\ scoreOut # Idle
    /\ scoreIn[3].c.kind = "string"
    /\ calculateTrendScore(scoreIn[3]).raised
    /\ ~scoreOut[1].raised
    /\ scoreOut[1].value.score = 50
    /\ scoreOut[1].value.label = "Neutral"

\* C10: every sub-score calculateScore places in the breakdown lies in
\* [0,100], also when the current price lies outside the day's range.
C10_SubScoresInRange ==
    Returned =>
        \A k \in DOMAIN scoreOut[1].value.breakdown :
            scoreOut[1].value.breakdown[k] \in 0..100

(***************************************************************************)
(* Properties of analyzeFundamentals (checked under SpecFund)              *)
(***************************************************************************)
MetricsAbsent == fundIn[1].isNull \/ fundIn[1].metric.isNull

\* C4: when the metric map is present and every ratio in it is absent, each
\* of the six categories scores exactly 50 with no insights and the overall
\* score is exactly 50.
C4_AllNullBaseline ==
    (fundOut # Idle /\ ~MetricsAbsent /\ fundIn[1].metric.map = EmptyMetrics) =>
        /\ ~fundOut[1].isNull
        /\ \A i \in 1..Len(Categories) :
              /\ fundOut[1][Categories[i]].score = 50
              /\ fundOut[1][Categories[i]].insights = <<>>
        /\ fundOut[1].overall.score = 50

\* C4 witness: an empty metric map of a technology company was analysed.
C4_Witness ==
    /\ fundOut # Idle
    /\ ~MetricsAbsent
    /\ fundIn[1].metric.map = EmptyMetrics
    /\ IndustryOf(fundIn[2]) = "Technology"
    /\ ~fundOut[1].isNull
    /\ fundOut[1].overall.score = 50

\* C5: when basicFinancials is null or has no metric map, analyzeFundamentals
\* returns null, whatever the profile is.
C5_AbsentMetricsUnavailable ==
    (fundOut # Idle /\ MetricsAbsent) => fundOut[1] = Unavailable

\* C5 witness: a response without a metric map, with a profile present, was
\* answered with null.
C5_Witness ==
    /\ fundOut # Idle
    /\ ~fundIn[1].isNull
    /\ fundIn[1].metric.isNull
    /\ ~fundIn[2].isNull
    /\ fundOut[1].isNull

(***************************************************************************)
(* Properties of aggregateSentiments (checked under SpecSent)              *)
(***************************************************************************)
EmptyInput == sentIn.isNull \/ Len(sentIn.items) = 0

Errored(result) == result.error # ""

\* the number of results of the input that carry an error
NumberErrored == Cardinality({i \in 1..Len(sentIn.items) : Errored(sentIn.items[i])})

\* the number of results of the input that carry no error and the given label
NumberErrorFree(label) ==
    Cardinality({i \in 1..Len(sentIn.items) :
                   ~Errored(sentIn.items[i]) /\ sentIn.items[i].label = label})

\* C6: for an empty or absent list aggregateSentiments returns positive = 0,
\* neutral = 0, negative = 0, total = 0 and overall = neutral.
C6_EmptySummaryHasTotal ==
    (sentOut # Idle /\ EmptyInput) =>
        /\ sentOut[1].positive = 0
        /\ sentOut[1].neutral = 0
        /\ sentOut[1].negative = 0
        /\ "total" \in DOMAIN sentOut[1]
        /\ sentOut[1].total = 0
        /\ sentOut[1].overall = "neutral"

\* C7: for a non-empty list the three counts sum to total, total is the
\* number of results, and the three rounded percentages sum to 99, 100 or 101.
C7_CountsAndPercentages ==
    (sentOut # Idle /\ ~EmptyInput) =>
        /\ sentOut[1].positive + sentOut[1].neutral + sentOut[1].negative = sentOut[1].total
        /\ sentOut[1].total = Len(sentIn.items)
        /\ sentOut[1].percentages.positive + sentOut[1].percentages.neutral
              + sentOut[1].percentages.negative \in {99, 100, 101}

\* C7 witness: six results whose percentages (17, 17, 67) sum to 101.
C7_Witness ==
    /\ sentOut # Idle
    /\ ~EmptyInput
    /\ sentOut[1].total = 6
    /\ sentOut[1].percentages.positive + sentOut[1].percentages.neutral
          + sentOut[1].percentages.negative = 101

\* C8: overall is positive exactly when positive > negative + neutral,
\* negative exactly when negative > positive + neutral, and neutral otherwise;
\* the two strict conditions never hold together.
C8_OverallLabel ==
    (sentOut # Idle /\ ~EmptyInput) =>
        LET pos == sentOut[1].positive
            neu == sentOut[1].neutral
            neg == sentOut[1].negative
        IN  /\ (sentOut[1].overall = "positive") <=> (pos > neg + neu)
            /\ (sentOut[1].overall = "negative") <=> (neg > pos + neu)
            /\ (sentOut[1].overall = "neutral") <=> (~(pos > neg + neu) /\ ~(neg > pos + neu))
            /\ ~((pos > neg + neu) /\ (neg > pos + neu))

\* C8 witness: positive is the largest count but not above the other two
\* together, and overall is neutral.
C8_Witness ==
    /\ sentOut # Idle
    /\ ~EmptyInput
    /\ sentOut[1].positive > sentOut[1].negative
    /\ sentOut[1].positive > sentOut[1].neutral
    /\ sentOut[1].overall = "neutral"

\* C9: every result that carries an error is counted as neutral and in no
\* other bucket, whatever its label: neutral holds the errored results and the
\* error-free neutral ones, positive and negative hold error-free results only.
C9_ErrorsCountNeutral ==
    (sentOut # Idle /\ ~EmptyInput) =>
        /\ sentOut[1].neutral = NumberErrored + NumberErrorFree("neutral")
        /\ sentOut[1].positive = NumberErrorFree("positive")
        /\ sentOut[1].negative = NumberErrorFree("negative")

\* C9 witness: a list with an errored result labelled positive and an errored
\* result labelled negative, none of them counted as positive or negative.
C9_Witness ==
    /\ sentOut # Idle
    /\ \E i, j \in 1..Len(sentIn.items) :
          /\ Errored(sentIn.items[i]) /\ sentIn.items[i].label = "positive"
          /\ Errored(sentIn.items[j]) /\ sentIn.items[j].label = "negative"
    /\ sentOut[1].positive = 0
    /\ sentOut[1].negative = 0
    /\ sentOut[1].neutral = Len(sentIn.items)

(***************************************************************************)
(* Properties of the sub-scores (checked under SpecQuote)                  *)
(***************************************************************************)
\* the quote lacks the day high or the day low, or the two are equal
NoDayRange ==
    \/ scoreIn[1].isNull
    \/ ~IsNumber(scoreIn[1].h)
    \/ ~IsNumber(scoreIn[1].l)
    \/ scoreIn[1].h = scoreIn[1].l

\* the trend computation raises on this history (a malformed series)
TrendRaises == HasTrendData(scoreIn[3]) /\ calculateTrendScore(scoreIn[3]).raised

\* C11: whenever the quote lacks the day high or the day low, or the day high
\* equals the day low, calculateScore returns without an exception, the
\* momentum sub-score is exactly 50, and the price, volatility and market
\* sub-scores are still the values their own fields give.
C11_MomentumNeutral ==
    (scoreOut # Idle /\ NoDayRange) =>
        /\ ~scoreOut[1].raised
        /\ ~TrendRaises =>
              /\ scoreOut[1].value.breakdown["momentum"] = 50
              /\ scoreOut[1].value.breakdown["price"] = calculatePriceScore(scoreIn[1])
              /\ scoreOut[1].value.breakdown["volatility"] = calculateVolatilityScore(scoreIn[1])
              /\ scoreOut[1].value.breakdown["market"] = calculateMarketScore(scoreIn[2])

\* the day high equals the day low, the current price is present, momentum is
\* 50 and the price and market sub-scores are not the neutral default
C11_Witness ==
    /\ Returned
    /\ ~scoreIn[1].isNull
    /\ Truthy(scoreIn[1].c)
    /\ IsNumber(scoreIn[1].h)
    /\ scoreIn[1].h = scoreIn[1].l
    /\ ~TrendRaises
    /\ scoreOut[1].value.breakdown["momentum"] = 50
    /\ scoreOut[1].value.breakdown["price"] = 90
    /\ scoreOut[1].value.breakdown["market"] = 80

(***************************************************************************)
(* Properties of the GET /:symbol handler (checked under SpecHandler)      *)
(***************************************************************************)
Answered == response # Idle

\* the quote fetch succeeded with a numeric current price
QuoteArrived ==
    /\ fetched["quote"].state = "resolved"
    /\ ~fetched["quote"].value.isNull
    /\ IsNumber(fetched["quote"].value.c)

\* C12: if the quote fetch succeeds with a numeric current price then,
\* whatever the outcome of the profile, financials and historical fetches,
\* the handler answers 200 with a technical score in 0..100 computed from the
\* quote (or the fallback of calculateScore, on a malformed history), and the
\* profile, the fundamentals and the historical block are null for the
\* fetches that failed.
C12_PartialFailuresStill200 ==
    (Answered /\ QuoteArrived) =>
        /\ response[1].status = 200
        /\ response[1].body.quote = fetched["quote"].value
        /\ response[1].body.scoring.score \in 0..100
        /\ \/ response[1].body.scoring.label = CatchResult.label
           \/ response[1].body.scoring.breakdown["price"]
                = calculatePriceScore(fetched["quote"].value)
        /\ fetched["profile"].state = "rejected" => response[1].body.profile.isNull
        /\ fetched["basicFinancials"].state = "rejected"
              => response[1].body.fundamentals.isNull
        /\ fetched["historicalData"].state = "rejected"
              => response[1].body.historical.isNull

\* the quote arrived, the three other fetches all failed, and the answer is
\* 200 with a score that is not the neutral 50
C12_Witness ==
    /\ Answered
    /\ QuoteArrived
    /\ fetched["profile"].state = "rejected"
    /\ fetched["basicFinancials"].state = "rejected"
    /\ fetched["historicalData"].state = "rejected"
    /\ response[1].status = 200
    /\ response[1].body.scoring.score > 70

(***************************************************************************)
(* Properties of analyzeMultipleSentiments                                 *)
(***************************************************************************)
\* the number of the batch the headline of index j belongs to
BatchOf(j) == (j - 1) \div batchSize

\* the classification of the headline has been started / has completed
Started(j) == calls[j].state \in {"calling", "fulfilled", "rejected"}

Completed(j) == calls[j].state \in {"fulfilled", "rejected"}

Outstanding == {j \in DOMAIN calls : calls[j].state = "calling"}

\* C13: at every moment at most 3 classification calls are outstanding, the
\* promises in progress all belong to one batch of at most 3 consecutive
\* headlines, and no headline of a later batch has its promise made or its
\* call started before every headline of the earlier batches has completed.
C13_BatchesOfThree ==
    /\ Cardinality(Outstanding) <= 3
    /\ \A j, k \in DOMAIN calls :
          (BatchOf(j) < BatchOf(k) /\ calls[k].state # "unstarted") => Completed(j)
    /\ \A j, k \in DOMAIN calls :
          (Started(j) /\ ~Completed(j) /\ Started(k) /\ ~Completed(k))
              => BatchOf(j) = BatchOf(k)

\* the call of the second batch is outstanding, after the three calls of the
\* first batch were outstanding and completed, one by a failure
C13_Witness ==
    /\ Len(headlines.items) > 3
    /\ calls[4].state = "calling"
    /\ \A j \in 1..3 : Completed(j) /\ calls[j].reply # ""
    /\ calls[1].reply = "rate_limit"

\* the headline's classification failed: the text is empty, the key is
\* missing, or the provider call failed
Failed(j) ==
    \/ headlines.items[j] = ""
    \/ ~apiKeySet
    \/ calls[j].reply \in FailedReplies

\* C14: whatever the provider replies to each call, analyzeMultipleSentiments
\* never rejects; it eventually resolves, and then it holds exactly one
\* result per input headline, the result of every failed headline being
\* neutral with an error, and no headline is left without its promise made.
C14_ResolvesWithOneResultEach ==
    /\ [](mpc # "rejected")
    /\ <>(mpc = "returned")
    /\ [](mpc = "returned" =>
            /\ Len(allResults) = Len(headlines.items)
            /\ \A j \in DOMAIN calls :
                  /\ calls[j].state = "fulfilled"
                  /\ allResults[j] = calls[j].value
                  /\ Failed(j) => /\ allResults[j].label = "neutral"
                                   /\ allResults[j].error # "")

\* the call returned four results after a failure in the first batch and
\* one in the second, with classified headlines after the first failure
C14_Witness ==
    /\ mpc = "returned"
    /\ Len(allResults) = 4
    /\ calls[1].reply = "network_error"
    /\ allResults[1].error = "Network Error"
    /\ allResults[2].label = "positive"
    /\ allResults[3].label = "negative"
    /\ calls[4].reply = "rate_limit"
    /\ allResults[4].error = "Rate limit exceeded"

\* C24: the results are in input order: at every moment the results pushed
\* so far are the classifications of the first headlines, index by index,
\* whatever the order in which the calls of a batch completed, and once the
\* function has returned the result list is as long as the headline list
\* (empty for an absent list).
C24_ResultsInInputOrder ==
    /\ mpc # "idle" =>
          /\ Len(allResults) <= Len(headlines.items)
          /\ \A i \in 1..Len(allResults) :
                allResults[i] =
                    analyzeSentiment(headlines.items[i], apiKeySet, calls[i].reply).value
    /\ mpc = "returned" => Len(allResults) = Len(headlines.items)

\* the function returned three results with three different outcomes after
\* the third call completed first and the first call last
C24_Witness ==
    /\ mpc = "returned"
    /\ Len(allResults) = 3
    /\ settleOrder = <<3, 2, 1>>
    /\ calls[1].reply = "positive" /\ calls[2].reply = "rate_limit"
    /\ calls[3].reply = "negative"
    /\ allResults[1].label = "positive"
    /\ allResults[2].error = "Rate limit exceeded"
    /\ allResults[3].label = "negative"

(***************************************************************************)
(* Further properties of calculateScore                                    *)
(***************************************************************************)
\* calculateScore returned the object of its try block, not the fallback
NotFallback == Returned /\ ~TrendRaises

\* C15: for a quote with a numeric dp the price sub-score is 90 if dp > 5,
\* 80 if 2 < dp <= 5, 65 if 0 < dp <= 2, 35 if -2 < dp <= 0, 20 if
\* -5 < dp <= -2 and 10 otherwise.
C15_PriceBuckets ==
    (NotFallback /\ ~scoreIn[1].isNull /\ IsNumber(scoreIn[1].dp)) =>
        LET dp == scoreIn[1].dp[1]
            price == scoreOut[1].value.breakdown["price"]
        IN  /\ dp > 5 => price = 90
            /\ (2 < dp /\ dp <= 5) => price = 80
            /\ (0 < dp /\ dp <= 2) => price = 65
            /\ (-2 < dp /\ dp <= 0) => price = 35
            /\ (-5 < dp /\ dp <= -2) => price = 20
            /\ dp <= -5 => price = 10

\* a percent change of exactly 5 scored 80, the lower bucket
C15_Witness ==
    /\ NotFallback
    /\ scoreIn[1].dp = Some(5)
    /\ scoreOut[1].value.breakdown["price"] = 80

\* C16: the composite is the weighted sum of the sub-scores in the breakdown
\* (weights 0.30, 0.25, 0.20, 0.15 and, for trend, 0.10) divided by the sum
\* of the weights of the sub-scores present (0.90 without trend, 1.00 with
\* it), rounded to the nearest integer and then clamped to 0..100; a
\* sub-score of 0 is present like any other.
C16_WeightedComposite ==
    NotFallback =>
        LET b == scoreOut[1].value.breakdown
            hasTrend == "trend" \in DOMAIN b
            sum == 30 * b["price"] + 25 * b["momentum"] + 20 * b["volatility"]
                   + 15 * b["market"] + (IF hasTrend THEN 10 * b["trend"] ELSE 0)
            divisor == IF hasTrend THEN 100 ELSE 90
        IN  \E r \in -200..300 :
                /\ 2 * r * divisor <= 2 * sum + divisor
                /\ 2 * sum + divisor < 2 * (r + 1) * divisor
                /\ scoreOut[1].value.score = (IF r < 0 THEN 0 ELSE IF r > 100 THEN 100 ELSE r)

\* a momentum sub-score of 0 (current price at the day low), no trend: the
\* composite is (30*90 + 25*0 + 20*10 + 15*80) / 90 = 45.6, reported as 46
C16_Witness ==
    /\ NotFallback
    /\ "trend" \notin DOMAIN scoreOut[1].value.breakdown
    /\ scoreOut[1].value.breakdown["momentum"] = 0
    /\ scoreOut[1].value.breakdown["price"] = 90
    /\ scoreOut[1].value.breakdown["volatility"] = 10
    /\ scoreOut[1].value.breakdown["market"] = 80
    /\ scoreOut[1].value.score = 46

(***************************************************************************)
(* Properties of the trend sub-score (checked under SpecCalls)             *)
(***************************************************************************)
\* the number of closes of a history (0 when there is none)
NumberOfCloses(h) == IF h.isNull \/ h.c.kind # "array" THEN 0 ELSE Len(h.c.items)

\* the threshold mapping of the percent difference between a recent and an
\* older average, both over five positive closes with sums rs and os
ThresholdScore(rs, os) ==
    IF (rs - os) * 100 > 10 * os THEN 90
    ELSE IF (rs - os) * 100 > 5 * os THEN 80
    ELSE IF (rs - os) * 100 > 0 THEN 65
    ELSE IF (rs - os) * 100 > -5 * os THEN 35
    ELSE IF (rs - os) * 100 > -10 * os THEN 20
    ELSE 10

\* the sum of the five closes that start at index s
FiveFrom(items, s) == items[s] + items[s + 1] + items[s + 2] + items[s + 3] + items[s + 4]

\* C17: for every series of at least 10 closes the trend sub-score is the
\* threshold mapping of the percent difference between the average of the 5
\* most recent closes and the average of 5 older closes (a window of exactly
\* 5 closes that lies before the recent ones); so a series of identical
\* positive closes scores 35.
C17_TrendFiveSampleWindow ==
    \A i \in DOMAIN callLog :
        LET h == callLog[i].historicalData
            n == NumberOfCloses(h)
            b == callLog[i].outcome.value.breakdown
        IN  n >= 10 =>
              /\ "trend" \in DOMAIN b
              /\ \E s \in 1..(n - 9) :
                    b["trend"] = ThresholdScore(FiveFrom(h.c.items, n - 4),
                                                FiveFrom(h.c.items, s))
              /\ (\A j \in 1..n : h.c.items[j] = h.c.items[1]) => b["trend"] = 35

\* the treatment of an insufficient history in one logged call
LeftOut(call) == "trend" \notin DOMAIN call.outcome.value.breakdown

IncludedAsNeutral(call) ==
    /\ "trend" \in DOMAIN call.outcome.value.breakdown
    /\ call.outcome.value.breakdown["trend"] = 50

InsufficientCalls == {i \in DOMAIN callLog : NumberOfCloses(callLog[i].historicalData) < 10}

\* C18: one policy for every history of fewer than 10 closes (absent, empty,
\* 1 to 9 closes): over all the calls made, the trend sub-score is left out
\* of the breakdown every time, or it is included as 50 every time.
C18_OneInsufficientPolicy ==
    \/ \A i \in InsufficientCalls : LeftOut(callLog[i])
    \/ \A i \in InsufficientCalls : IncludedAsNeutral(callLog[i])

(***************************************************************************)
(* Label and recommendation in the answer of GET /:symbol                  *)
(***************************************************************************)
\* the answer carries a result of calculateScore that is not its fallback
ScoredAnswer ==
    /\ Answered
    /\ response[1].status = 200
    /\ response[1].body.scoring.label # CatchResult.label

\* C19: for every result of calculateScore that is not the fallback, the
\* label and the recommendation sent with it are in the tier of the reported
\* score: Strong and Consider from 70, Moderate and Monitor from 40 to 69,
\* Weak and Caution below 40.
C19_LabelAndActionTier ==
    ScoredAnswer =>
        LET scoring == response[1].body.scoring
        IN  /\ scoring.score >= 70 =>
                  scoring.label = "Strong" /\ scoring.recommendation.action = "Consider"
            /\ (40 <= scoring.score /\ scoring.score < 70) =>
                  scoring.label = "Moderate" /\ scoring.recommendation.action = "Monitor"
            /\ scoring.score < 40 =>
                  scoring.label = "Weak" /\ scoring.recommendation.action = "Caution"

\* a composite above 100 (momentum 200) reported as 100, Strong, Consider
C19_Witness ==
    /\ ScoredAnswer
    /\ response[1].body.scoring.breakdown["momentum"] = 200
    /\ response[1].body.scoring.score = 100
    /\ response[1].body.scoring.label = "Strong"
    /\ response[1].body.scoring.recommendation.action = "Consider"

(***************************************************************************)
(* Properties of analyzeValuation (checked under SpecFund)                 *)
(***************************************************************************)
\* the P/E of the metric map: the first of its two provider keys that holds
\* a value
PEValue(metrics) ==
    IF IsNumber(metrics["peBasicExclExtraTTM"]) THEN metrics["peBasicExclExtraTTM"]
    ELSE metrics["peTTM"]

\* analyzeFundamentals ran on a metric map that holds a P/E and no P/B
OnlyPE ==
    /\ fundOut # Idle
    /\ ~MetricsAbsent
    /\ IsNumber(PEValue(fundIn[1].metric.map))
    /\ ~IsNumber(fundIn[1].metric.map["pbQuarterly"])
    /\ ~IsNumber(fundIn[1].metric.map["pbAnnual"])

\* C20: with only a P/E present, a P/E below 0.8 times the benchmark P/E
\* gives valuation score 65 and exactly one insight, of type positive; a P/E
\* above 1.5 times the benchmark gives 40 and one negative insight; any P/E
\* in between gives 50 and one neutral insight.
C20_ValuationFromPE ==
    OnlyPE =>
        LET pe == PEValue(fundIn[1].metric.map)[1]
            benchmark == getIndustryBenchmark(IndustryOf(fundIn[2])).peRatio
            valuation == fundOut[1].valuation
            expected == IF pe * 10 < benchmark * 8 THEN <<65, "positive">>
                        ELSE IF pe * 10 > benchmark * 15 THEN <<40, "negative">>
                        ELSE <<50, "neutral">>
        IN  /\ valuation.score = expected[1]
            /\ Len(valuation.insights) = 1
            /\ valuation.insights[1].type = expected[2]

(***************************************************************************)
(* Properties of the overall fundamental score (checked under SpecFundFull) *)
(***************************************************************************)
Analysed == fundOut # Idle /\ ~fundOut[1].isNull

\* C21: in every result of analyzeFundamentals the overall label is the one
\* the thresholds assign to the reported overall score: Excellent from 75,
\* Good from 60 to 74, Fair from 40 to 59, Poor below 40.
C21_OverallLabelOfReportedScore ==
    Analysed =>
        LET score == fundOut[1].overall.score
            text == fundOut[1].overall.label.text
        IN  /\ text = "Excellent" <=> score >= 75
            /\ text = "Good" <=> (60 <= score /\ score < 75)
            /\ text = "Fair" <=> (40 <= score /\ score < 60)
            /\ text = "Poor" <=> score < 40

\* the bounds of the category scores: the neutral 50 plus the largest and
\* the smallest sum of deltas of the category's rules
CategoryBounds ==
    [valuation |-> <<35, 75>>, profitability |-> <<30, 75>>, liquidity |-> <<35, 75>>,
     leverage |-> <<35, 65>>, dividend |-> <<45, 60>>, growth |-> <<20, 85>>]

\* C29: for every metrics input the category scores lie within their bounds
\* and the overall score lies between 33 and 73 inclusive, so the label
\* 'Excellent' is never produced; the labels produced are 'Good', 'Fair' and
\* 'Poor'.
C29_OverallScoreRange ==
    Analysed =>
        /\ \A i \in 1..Len(Categories) :
              /\ CategoryBounds[Categories[i]][1] <= fundOut[1][Categories[i]].score
              /\ fundOut[1][Categories[i]].score <= CategoryBounds[Categories[i]][2]
        /\ 33 <= fundOut[1].overall.score
        /\ fundOut[1].overall.score <= 73
        /\ fundOut[1].overall.label.text \in {"Good", "Fair", "Poor"}

\* every category at its upper bound: the overall score is 73 and the label
\* is 'Good'
C29_Witness ==
    /\ Analysed
    /\ \A i \in 1..Len(Categories) :
          fundOut[1][Categories[i]].score = CategoryBounds[Categories[i]][2]
    /\ fundOut[1].overall.score = 73
    /\ fundOut[1].overall.label.text = "Good"

(***************************************************************************)
(* Properties of extractKeyRatios (checked under SpecFund)                 *)
(***************************************************************************)
\* the ordered provider keys of each canonical ratio
Synonyms ==
    [peRatio          |-> <<"peBasicExclExtraTTM", "peTTM">>,
     pbRatio          |-> <<"pbQuarterly", "pbAnnual">>,
     roe              |-> <<"roeRfy", "roeTTM">>,
     roa              |-> <<"roaRfy", "roaTTM">>,
     eps              |-> <<"epsBasicExclExtraItemsTTM", "epsTTM">>,
     bookValue        |-> <<"bookValuePerShareQuarterly", "bookValuePerShareAnnual">>,
     debtToEquity     |-> <<"totalDebt2EquityQuarterly", "totalDebt2EquityAnnual">>,
     currentRatio     |-> <<"currentRatioQuarterly", "currentRatioAnnual">>,
     quickRatio       |-> <<"quickRatioQuarterly", "quickRatioAnnual">>,
     profitMargin     |-> <<"netProfitMarginTTM">>,
     operatingMargin  |-> <<"operatingMarginTTM">>,
     dividendYield    |-> <<"dividendYieldIndicatedAnnual">>,
     dividendPerShare |-> <<"dividendsPerShareTTM">>,
     revenueGrowth    |-> <<"revenueGrowthTTMYoy">>,
     epsGrowth        |-> <<"epsGrowthTTMYoy">>]

\* the value of the first key that holds a number, null when none does
FirstNonNull(metrics, keys) ==
    IF \E i \in 1..Len(keys) : IsNumber(metrics[keys[i]])
    THEN LET first == CHOOSE i \in 1..Len(keys) :
                         /\ IsNumber(metrics[keys[i]])
                         /\ \A j \in 1..(i - 1) : ~IsNumber(metrics[keys[j]])
         IN  metrics[keys[first]]
    ELSE Null

\* C22: every canonical ratio of keyRatios is the value of the first provider
\* key of its synonym list that holds a value, a value of 0 included, and is
\* null only when none of the keys holds a value.
C22_FirstNonNullSynonym ==
    Analysed =>
        \A ratio \in DOMAIN Synonyms :
            fundOut[1].keyRatios[ratio] = FirstNonNull(fundIn[1].metric.map, Synonyms[ratio])

\* the ratios of keyRatios each category scores
CategoryRatios ==
    [valuation |-> {"peRatio", "pbRatio"}, profitability |-> {"roe", "profitMargin"},
     liquidity |-> {"currentRatio", "quickRatio"}, leverage |-> {"debtToEquity"},
     dividend |-> {"dividendYield"}, growth |-> {"revenueGrowth", "epsGrowth"}]

\* C30: the category analyses agree with keyRatios about which ratios are
\* available: a category whose ratios keyRatios all reports as null has
\* applied no delta and appended no insight (its score is 50 and its
\* insights are empty).
C30_CategoriesAgreeWithKeyRatios ==
    Analysed =>
        \A i \in 1..Len(Categories) :
            (\A ratio \in CategoryRatios[Categories[i]] : fundOut[1].keyRatios[ratio] = Null)
                => /\ fundOut[1][Categories[i]].score = 50
                   /\ fundOut[1][Categories[i]].insights = <<>>

(***************************************************************************)
(* Properties of the service singletons (checked under SpecShared)         *)
(***************************************************************************)
\* C23: however the calls of two requests interleave, each request obtains
\* from calculateScore and analyzeFundamentals the result it obtains when it
\* runs alone on freshly constructed singletons, and the benchmark table and
\* the score thresholds of the singletons are as their constructors left
\* them.
C23_NoSharedMutableState ==
    /\ benchmarksTable = industryBenchmarks
    /\ thresholdsTable = scoreThresholds
    /\ \A r \in DOMAIN requests :
          LET in == requests[r].input
          IN  /\ requests[r].scoring # Idle =>
                    requests[r].scoring[1]
                      = calculateScore(in.quote, in.profile, in.historicalData).value
              /\ requests[r].fundamentals # Idle =>
                    requests[r].fundamentals[1]
                      = analyzeFundamentals(in.basicFinancials, in.profile)

\* request 2 made both its calls between the two calls of request 1; the
\* requests are for companies of different industries and got different
\* analyses of the same metrics
C23_Witness ==
    /\ Len(callLog) = 4
    /\ callLog[1].request = 1 /\ callLog[2].request = 2
    /\ callLog[3].request = 2 /\ callLog[4].request = 1
    /\ requests[1].input.profile.finnhubIndustry = "Banking"
    /\ requests[2].input.profile.finnhubIndustry = "Technology"
    /\ requests[1].input.basicFinancials = requests[2].input.basicFinancials
    /\ ~requests[1].fundamentals[1].isNull
    /\ ~requests[2].fundamentals[1].isNull
    /\ requests[1].fundamentals[1].leverage.score # requests[2].fundamentals[1].leverage.score

(***************************************************************************)
(* Properties of the webhook router                                        *)
(***************************************************************************)
\* the last request was a POST /finnhub that passed verifyWebhookSecret
VerifiedFinnhub ==
    /\ exchange # Idle
    /\ exchange[1].route = "finnhub"
    /\ Verified(exchange[1].secret, webhookSecret)

C26_NewestHundred ==
    /\ Len(webhookEvents) <= MAX_EVENTS
    /\ \A i \in 1..Len(webhookEvents) : webhookEvents[i].stamp = received - i + 1
    /\ Len(webhookEvents) < MAX_EVENTS => (Len(webhookEvents) - received) \in Backlogs

\* two deliveries, one by each route, into a full list: the two oldest
\* events are gone and the list is full
C26_Witness ==
    /\ received = 2
    /\ Len(webhookEvents) = MAX_EVENTS
    /\ webhookEvents[1].route = "finnhub"
    /\ webhookEvents[2].route = "test"
    /\ webhookEvents[MAX_EVENTS].stamp = 3 - MAX_EVENTS

\* C27: a request whose secret header is missing or differs from the
\* configured secret, or any request made while no secret is configured,
\* leaves webhookEvents unchanged, on every webhook route.
C27_OnlyVerifiedRequestsStore ==
    [][~Verified(exchange'[1].secret, webhookSecret) => webhookEvents' = webhookEvents]_vars

(***************************************************************************)
(* Properties of the App component                                         *)
(***************************************************************************)
\* C28: once no fetch is in flight, the displayed stockData (if any) belongs
\* to the most recently selected symbol, and isLoading is true at every
\* moment at which a fetch is still in flight.
C28_LatestSelectionShown ==
    /\ (InFlight = {} /\ fetches # <<>> /\ stockData # Null)
          => stockData[1].symbol = fetches[Len(fetches)].symbol
    /\ InFlight # {} => loadingState.isLoading
====
